---- MODULE Spec2Model ----
(***************************************************************************)
(* Model of the reconciliation engine of meri (src/meri/lautta.py) and of  *)
(* the discoverer registry (src/meri/discovery/_registry.py).              *)
(*                                                                         *)
(* Timestamps are integers; MinDate stands for datetime.min (UTC) and      *)
(* NoDate for a missing (None) timestamp.  None stands for Python's None   *)
(* where a string is expected.  List indices are 0-based as in the source, *)
(* so entry number idx of a list is element idx + 1 of the sequence.       *)
(***************************************************************************)
EXTENDS Integers, Sequences, FiniteSets, TLC

\* ---------------------------------------------------------------- bounds
MaxTime == 2
MaxUrls == 3
MaxInitEntries == 2
MaxRahti == 3
MaxDays == 2
MaxRegistrations == 3

\* ------------------------------------------------------------- constants
None == "None"
NoDate == -1
MinDate == 0
NotFound == -1
NoLimit == -1
DefaultWeight == 50

SignOrder == <<"abc", "def", "ghi">>
Signs == {SignOrder[i] : i \in 1..Len(SignOrder)}
Times == 1..MaxTime

Max(a, b) == IF a >= b THEN a ELSE b

\* Python's `x or minimum_date` on an optional datetime
OrMin(t) == IF t = NoDate THEN MinDate ELSE t

\* Python's `a or b` on optional / possibly empty strings
OrStr(a, b) == IF a # None /\ a # "" THEN a ELSE b

Range(s) == {s[i] : i \in 1..Len(s)}

\* ----------------------------------------------------------- data model
RahtiUrl(s) == [sign |-> s, labels |-> {}]

SignsOf(entry) == {entry.urls[i].sign : i \in 1..Len(entry.urls)}

NoEntry == [updated |-> NoDate, urls |-> <<>>, title |-> None,
            clickbaitiness |-> None, labels |-> {}, outlet |-> None]

NoArticle == [urls |-> <<>>, updated_at |-> NoDate, created_at |-> NoDate]

\* lists of at most MaxUrls url records with pairwise distinct signatures
SignLists == {s \in UNION {[1..n -> Signs] : n \in 0..MaxUrls} :
                 \A i, j \in 1..Len(s) : i # j => s[i] # s[j]}

UrlLists == {[i \in 1..Len(s) |-> RahtiUrl(s[i])] : s \in SignLists}

\* ------------------------------------------------------------ variables
VARIABLES
    rahti,      \* RahtiCleaner.rahti: [updated, entries]
    map,        \* RahtiCleaner.map: signature -> index into rahti.entries
    call,       \* the last call on the cleaner: operation, arguments, result
                \* and the cleaner's state right before it
    prune,      \* a call of prune_rahti: its arguments, the clock and its result
    registry,   \* DiscovererRegistry._discoverers, the registrations made so
                \* far and the last get
    extract,    \* a call of get_extractor: the extractors, the url, the outcome
    pool,       \* a fetch or title phase: its items, their workers' outcomes,
                \* the results collected so far
    run,        \* a run of the pipeline: its position, its dataset, the
                \* collaborators it has contacted
    store,      \* a persisted store and the clients that pull and push
    art,        \* articles and their urls' signatures
    valid,      \* a RahtiEntry under validation and serialization
    workers,    \* a thread pool: the work submitted, in flight and collected
    threads,    \* the threads that call upsert on one cleaner, and its lock
    session,    \* a sequence of calls on one cleaner
    fetch       \* a call of fetch_source: the articles discovered, the result

vars == <<rahti, map, call, prune, registry, extract, pool, run, store, art, valid,
          workers, threads, session, fetch>>

sideVars == <<workers, threads, session, fetch>>

\* what the calls on the cleaner, the call of prune_rahti and the calls on the
\* registry leave alone
notCleaner == <<prune, registry, extract, pool, run, store, art, valid, sideVars>>
notPrune == <<rahti, map, call, registry, extract, pool, run, store, art, valid, sideVars>>
notRegistry == <<rahti, map, call, prune, extract, pool, run, store, art, valid, sideVars>>
core == <<rahti, map, call, prune, registry, sideVars>>
notExtract == <<core, pool, run, store, art, valid>>
notPool == <<core, extract, run, store, art, valid>>
notRun == <<core, extract, pool, store, art, valid>>
notStore == <<core, extract, pool, run, art, valid>>
notArt == <<core, extract, pool, run, store, valid>>
notValid == <<core, extract, pool, run, store, art>>

\* a component that is not exercised
Off == [pc |-> "off"]

RestOff == workers = Off /\ threads = Off /\ session = Off /\ fetch = Off

\* --------------------------------------------------- RahtiCleaner.__init__
RECURSIVE IndexUrls(_, _, _)
IndexUrls(m, urls, idx) ==
    IF urls = <<>> THEN m
    ELSE LET sign == Head(urls).sign
             m1 == IF sign \notin DOMAIN m
                   THEN [s \in DOMAIN m \cup {sign} |->
                            IF s = sign THEN idx ELSE m[s]]
                   ELSE m
         IN IndexUrls(m1, Tail(urls), idx)

RECURSIVE BuildMapFrom(_, _, _)
BuildMapFrom(m, es, idx) ==
    IF idx >= Len(es) THEN m
    ELSE BuildMapFrom(IndexUrls(m, es[idx + 1].urls, idx), es, idx + 1)

EmptyMap == [s \in {} |-> 0]

BuildMap(es) == BuildMapFrom(EmptyMap, es, 0)

\* -------------------------------------------------------- RahtiCleaner.find
\* variant: the candidate's urls are scanned from the last one
RECURSIVE FindSign_last(_, _)
FindSign_last(m, urls) ==
    IF urls = <<>> THEN NotFound
    ELSE IF urls[Len(urls)].sign \in DOMAIN m
         THEN m[urls[Len(urls)].sign]
         ELSE FindSign_last(m, SubSeq(urls, 1, Len(urls) - 1))

RECURSIVE FindSign(_, _)
FindSign(m, urls) ==
    IF urls = <<>> THEN NotFound
    ELSE IF Head(urls).sign \in DOMAIN m
         THEN m[Head(urls).sign]
         ELSE FindSign(m, Tail(urls))

find(m, entry) == FindSign(m, entry.urls)

\* ---------------------------------------------- RahtiCleaner.find_by_article
RECURSIVE FindSignature(_, _, _)
FindSignature(m, es, urls) ==
    IF urls = <<>> THEN NoEntry
    ELSE IF Head(urls).signature \in DOMAIN m
         THEN es[m[Head(urls).signature] + 1]
         ELSE FindSignature(m, es, Tail(urls))

find_by_article(m, r, article) == FindSignature(m, r.entries, article.urls)

\* ---------------------------------------------- RahtiCleaner._mark_updated
\* variant: the dataset takes the time of the entry
mark_updated_entry(r, entry) == [r EXCEPT !.updated = entry.updated]

mark_updated(r, entry) ==
    [r EXCEPT !.updated = Max(MinDate, Max(r.updated, entry.updated))]

\* ----------------------------------------------------- RahtiCleaner.replace
\* variant: the references of the old entry stay in the map
RemoveRefs_keep(m, old_entry) == m

RemoveRefs(m, old_entry) ==
    [s \in DOMAIN m \ SignsOf(old_entry) |-> m[s]]

\* variant: the title of the new entry is stored as it is
MergeData_newtitle(entry, old_entry) ==
    [entry EXCEPT
        !.updated = Max(OrMin(entry.updated), OrMin(old_entry.updated)),
        !.labels = old_entry.labels \cup entry.labels,
        !.clickbaitiness = OrStr(entry.clickbaitiness, old_entry.clickbaitiness),
        !.outlet = OrStr(entry.outlet, old_entry.outlet)]

MergeData(entry, old_entry) ==
    [entry EXCEPT
        !.updated = Max(OrMin(entry.updated), OrMin(old_entry.updated)),
        !.title = OrStr(entry.title, old_entry.title),
        !.labels = old_entry.labels \cup entry.labels,
        !.clickbaitiness = OrStr(entry.clickbaitiness, old_entry.clickbaitiness),
        !.outlet = OrStr(entry.outlet, old_entry.outlet)]

MergeUrls(entry, old_entry) ==
    LET existing_signs == SignsOf(old_entry)
    IN [entry EXCEPT !.urls = entry.urls \o
            SelectSeq(old_entry.urls, LAMBDA url : url.sign \notin existing_signs)]

\* the cleaner after replace(entry) and the value it returns
replace(r, m, entry) ==
    LET idx == find(m, entry) IN
    IF idx = NotFound
    THEN [rahti |-> r, map |-> m, ret |-> NoEntry, idx |-> NotFound]
    ELSE LET old_entry == r.entries[idx + 1]
             m1 == RemoveRefs(m, old_entry)
             merged == MergeUrls(MergeData(entry, old_entry), old_entry)
             r1 == [r EXCEPT !.entries[idx + 1] = merged]
             m2 == IndexUrls(m1, merged.urls, idx)
         IN [rahti |-> mark_updated(r1, merged), map |-> m2,
             ret |-> old_entry, idx |-> idx]

\* ------------------------------------------------------ RahtiCleaner.insert
\* variant: insert returns None
insert_none(r, m, entry) ==
    LET r1 == [r EXCEPT !.entries = Append(r.entries, entry)]
        idx == Len(r1.entries) - 1
    IN [rahti |-> mark_updated(r1, entry), map |-> IndexUrls(m, entry.urls, idx),
        ret |-> NoEntry, idx |-> idx]

insert(r, m, entry) ==
    LET r1 == [r EXCEPT !.entries = Append(r.entries, entry)]
        idx == Len(r1.entries) - 1
    IN [rahti |-> mark_updated(r1, entry), map |-> IndexUrls(m, entry.urls, idx),
        ret |-> entry, idx |-> idx]

\* ------------------------------------------------------ RahtiCleaner.upsert
\* variant: the entry is appended whether or not it matches
upsert_append(r, m, entry) == insert(r, m, entry)

upsert(r, m, entry) ==
    LET existing == find(m, entry) IN
    IF existing # NotFound THEN replace(r, m, entry) ELSE insert(r, m, entry)

\* ----------------------------------------------- RahtiCleaner.needs_updating
\* variant: an article as old as the stored entry is admitted again
needs_updating_ge(r, m, article) ==
    IF article.updated_at = NoDate /\ article.created_at = NoDate THEN TRUE
    ELSE LET rahti_entry == find_by_article(m, r, article) IN
         IF rahti_entry = NoEntry THEN TRUE
         ELSE Max(OrMin(article.updated_at), OrMin(article.created_at))
                 >= rahti_entry.updated

needs_updating(r, m, article) ==
    IF article.updated_at = NoDate /\ article.created_at = NoDate THEN TRUE
    ELSE LET rahti_entry == find_by_article(m, r, article) IN
         IF rahti_entry = NoEntry THEN TRUE
         ELSE Max(OrMin(article.updated_at), OrMin(article.created_at))
                 > rahti_entry.updated

\* ------------------------------------------------------------- prune_rahti
\* Python's truth value of an optional string
Truthy(x) == x # None /\ x # ""

NewsSource(name, enabled, max_age_days, max_num_articles) ==
    [name |-> name, enabled |-> enabled, max_age_days |-> max_age_days,
     max_num_articles |-> max_num_articles]

\* {source.name: source for source in sources if source.name and source.enabled}
\* variant: disabled sources are kept in the map
RECURSIVE SourceMapFrom_all(_, _)
SourceMapFrom_all(m, sources) ==
    IF sources = <<>> THEN m
    ELSE LET source == Head(sources)
             m1 == IF Truthy(source.name)
                   THEN [n \in DOMAIN m \cup {source.name} |->
                            IF n = source.name THEN source ELSE m[n]]
                   ELSE m
         IN SourceMapFrom_all(m1, Tail(sources))

RECURSIVE SourceMapFrom(_, _)
SourceMapFrom(m, sources) ==
    IF sources = <<>> THEN m
    ELSE LET source == Head(sources)
             m1 == IF Truthy(source.name) /\ source.enabled
                   THEN [n \in DOMAIN m \cup {source.name} |->
                            IF n = source.name THEN source ELSE m[n]]
                   ELSE m
         IN SourceMapFrom(m1, Tail(sources))

\* first pass: is the entry older than the cutoff of its source?
\* variant: an entry exactly at the cutoff is dropped too
TooOld_inclusive(entry, source, now) ==
    /\ source.max_age_days # NoLimit
    /\ entry.updated <= now - source.max_age_days

TooOld(entry, source, now) ==
    /\ source.max_age_days # NoLimit
    /\ entry.updated < now - source.max_age_days

FirstPass(rahti_list, source_map, now) ==
    SelectSeq(rahti_list, LAMBDA entry :
        /\ Truthy(entry.outlet)
        /\ entry.outlet \in DOMAIN source_map
        /\ ~TooOld(entry, source_map[entry.outlet], now))

\* second pass: the (idx, entry) pairs of one outlet, in list order
RECURSIVE IndexedFrom(_, _, _)
IndexedFrom(filtered_entries, outlet, idx) ==
    IF idx >= Len(filtered_entries) THEN <<>>
    ELSE (IF filtered_entries[idx + 1].outlet = outlet
          THEN << <<idx, filtered_entries[idx + 1]>> >> ELSE <<>>)
            \o IndexedFrom(filtered_entries, outlet, idx + 1)

entries_by_source(filtered_entries, outlet) == IndexedFrom(filtered_entries, outlet, 0)

\* sorted(indexed_entries, key=updated, reverse=True): a stable sort, pairs of
\* equal updated keep their order
\* variant: among pairs of equal updated the later one comes first
RECURSIVE InsertNewestFirst_unstable(_, _)
InsertNewestFirst_unstable(sorted, x) ==
    IF sorted = <<>> THEN <<x>>
    ELSE IF Head(sorted)[2].updated > x[2].updated
         THEN <<Head(sorted)>> \o InsertNewestFirst_unstable(Tail(sorted), x)
         ELSE <<x>> \o sorted

RECURSIVE InsertNewestFirst(_, _)
InsertNewestFirst(sorted, x) ==
    IF sorted = <<>> THEN <<x>>
    ELSE IF Head(sorted)[2].updated >= x[2].updated
         THEN <<Head(sorted)>> \o InsertNewestFirst(Tail(sorted), x)
         ELSE <<x>> \o sorted

RECURSIVE SortNewestFirst(_, _)
SortNewestFirst(sorted, indexed_entries) ==
    IF indexed_entries = <<>> THEN sorted
    ELSE SortNewestFirst(InsertNewestFirst(sorted, Head(indexed_entries)),
                         Tail(indexed_entries))

\* Python's seq[:n]
SliceTo(seq, n) ==
    IF n >= 0 THEN SubSeq(seq, 1, IF n < Len(seq) THEN n ELSE Len(seq))
    ELSE SubSeq(seq, 1, Len(seq) + n)

kept_indices(indexed_entries, source) ==
    IF source.max_num_articles # NoLimit
    THEN LET sorted_entries == SortNewestFirst(<<>>, indexed_entries)
             newest == SliceTo(sorted_entries, source.max_num_articles)
         IN {newest[k][1] : k \in 1..Len(newest)}
    ELSE {indexed_entries[k][1] : k \in 1..Len(indexed_entries)}

indices_to_keep(filtered_entries, source_map) ==
    UNION {IF outlet \in DOMAIN source_map
           THEN kept_indices(entries_by_source(filtered_entries, outlet),
                             source_map[outlet])
           ELSE {} :
              outlet \in {filtered_entries[k].outlet : k \in 1..Len(filtered_entries)}}

\* [entry for idx, entry in enumerate(filtered_entries) if idx in indices_to_keep]
\* variant: the kept entries are returned newest first
KeptInOrder_newest(filtered_entries, keep) ==
    LET pairs == [k \in 1..Len(filtered_entries) |-> <<k - 1, filtered_entries[k]>>]
        sorted == SortNewestFirst(<<>>, SelectSeq(pairs, LAMBDA x : x[1] \in keep))
    IN [k \in 1..Len(sorted) |-> sorted[k][2]]

RECURSIVE KeptInOrder(_, _)
KeptInOrder(filtered_entries, keep) ==
    IF filtered_entries = <<>> THEN <<>>
    ELSE LET idx == Len(filtered_entries) - 1 IN
         KeptInOrder(SubSeq(filtered_entries, 1, idx), keep)
            \o (IF idx \in keep THEN <<filtered_entries[idx + 1]>> ELSE <<>>)

\* the list prune_rahti returns, and the list its first pass leaves
prune_rahti(rahti_list, sources, now) ==
    LET source_map == SourceMapFrom([n \in {} |-> 0], sources) IN
    IF DOMAIN source_map = {}
    THEN [filtered |-> <<>>, result |-> <<>>]
    ELSE LET filtered_entries == FirstPass(rahti_list, source_map, now)
             keep == indices_to_keep(filtered_entries, source_map)
         IN [filtered |-> filtered_entries,
             result |-> KeptInOrder(filtered_entries, keep)]

\* ------------------------------------------------------ DiscovererRegistry
\* self._discoverers[name].sort(key=weight, reverse=True): a stable sort
RECURSIVE InsertByWeight(_, _)
InsertByWeight(sorted, x) ==
    IF sorted = <<>> THEN <<x>>
    ELSE IF Head(sorted).weight >= x.weight
         THEN <<Head(sorted)>> \o InsertByWeight(Tail(sorted), x)
         ELSE <<x>> \o sorted

RECURSIVE SortByWeight(_, _)
SortByWeight(sorted, list) ==
    IF list = <<>> THEN sorted
    ELSE SortByWeight(InsertByWeight(sorted, Head(list)), Tail(list))

\* the body of the loop over the names: the class is added to the list of the
\* name, or its weight is updated where it stands, and the list is sorted
RegisterName(discoverers, discoverer_name, cls, weight) ==
    LET list == IF discoverer_name \in DOMAIN discoverers
                THEN discoverers[discoverer_name] ELSE <<>>
        found == {i \in 1..Len(list) : list[i].cls = cls}
        list1 == IF found # {}
                 THEN [list EXCEPT ![CHOOSE i \in found : \A j \in found : i <= j] =
                                       [weight |-> weight, cls |-> cls]]
                 ELSE Append(list, [weight |-> weight, cls |-> cls])
        list2 == SortByWeight(<<>>, list1)
    IN [n \in DOMAIN discoverers \cup {discoverer_name} |->
           IF n = discoverer_name THEN list2 ELSE discoverers[n]]

\* register(name, weight)(cls) and register_discoverer(name, cls, weight),
\* name being one name or a list of names
RECURSIVE register(_, _, _, _)
register(discoverers, names, cls, weight) ==
    IF names = <<>> THEN discoverers
    ELSE register(RegisterName(discoverers, Head(names), cls, weight),
                  Tail(names), cls, weight)

\* DiscovererRegistry.get
get(discoverers, name) ==
    IF name \notin DOMAIN discoverers \/ discoverers[name] = <<>> THEN None
    ELSE discoverers[name][1].cls

\* ------------------------------------------------------------------ inputs
MkEntry(t, urls, meta) ==
    [updated |-> t, urls |-> urls, title |-> meta.title,
     clickbaitiness |-> meta.clickbaitiness, labels |-> meta.labels,
     outlet |-> meta.outlet]

\* title, labels, clickbaitiness and outlet of the entries of the dataset
StoredMeta ==
    [title |-> "Old", labels |-> {"paywalled"},
     clickbaitiness |-> "Slightly Clickbaity", outlet |-> "yle"]

\* ... and of the entries handed to the cleaner
PlainMeta ==
    [title |-> "New", labels |-> {"sponsored"},
     clickbaitiness |-> "Very Clickbaity", outlet |-> "hs"]

Metas == {
    PlainMeta,
    [title |-> "", labels |-> {},            clickbaitiness |-> "Slightly Clickbaity", outlet |-> None],
    [title |-> "", labels |-> {"sponsored"}, clickbaitiness |-> "Very Clickbaity",     outlet |-> "hs"] }

\* entries handed to replace
NewEntries == {MkEntry(t, u, m) : t \in Times, u \in UrlLists, m \in Metas}

\* entries handed to insert and upsert, which read the urls and the time only
PlainEntries == {MkEntry(t, u, PlainMeta) : t \in Times, u \in UrlLists}

\* candidates of find: only the urls of the candidate are read
Candidates == {MkEntry(1, u, PlainMeta) : u \in UrlLists}

\* The datasets a cleaner is constructed on.  A dataset of n entries is given
\* by the entries that store each signature (none, one of them, or the first
\* two) and by the time of each entry, the oldest or the latest one.
OwnerSets(n) == {{}} \cup {{k} : k \in 1..n} \cup (IF n >= 2 THEN {{1, 2}} ELSE {})

RECURSIVE OwnedUrls(_, _, _)
OwnedUrls(own, k, i) ==
    IF i > Len(SignOrder) THEN <<>>
    ELSE (IF k \in own[SignOrder[i]] THEN <<RahtiUrl(SignOrder[i])>> ELSE <<>>)
            \o OwnedUrls(own, k, i + 1)

Dataset(n, own, at) ==
    [k \in 1..n |-> MkEntry(at[k], OwnedUrls(own, k, 1), StoredMeta)]

ArticleUrl(s) == [signature |-> s, labels |-> {}]

MkArticle(s, ua, ca) ==
    [urls |-> [i \in 1..Len(s) |-> ArticleUrl(s[i])], updated_at |-> ua, created_at |-> ca]

\* articles looked up by find_by_article: only their urls are read
Stubs == {MkArticle(s, NoDate, 1) : s \in SignLists}

\* articles without a timestamp, with one and with two, old or recent
Articles == {MkArticle(s, ua, ca) :
                s \in SignLists, ua \in {NoDate, 1, MaxTime}, ca \in {NoDate, 1, MaxTime}}

\* ----------------------------------------------------------------- actions
Call(op, entry, article, res, flag) ==
    [op |-> op, entry |-> entry, article |-> article, idx |-> res.idx,
     ret |-> res.ret, flag |-> flag, old_rahti |-> rahti, old_map |-> map]

NoRes == [idx |-> NotFound, ret |-> NoEntry]

RegistryIdle == [discoverers |-> [n \in {} |-> <<>>], log |-> <<>>, got |-> <<>>]

CleanerIdle ==
    [op |-> "init", entry |-> NoEntry, article |-> NoArticle, idx |-> NotFound,
     ret |-> NoEntry, flag |-> FALSE,
     old_rahti |-> [updated |-> MinDate, entries |-> <<>>], old_map |-> EmptyMap]

PruneIdle ==
    [rahti |-> <<>>, sources |-> <<>>, now |-> 0, pc |-> "idle",
     filtered |-> <<>>, result |-> <<>>]

\* the cleaner has been constructed and not been called yet
Constructed == call.op = "init"

InitCleaner ==
    /\ RestOff
    /\ \E n \in 0..MaxInitEntries :
          \E own \in [Signs -> OwnerSets(n)], at \in [1..n -> {1, MaxTime}],
             u \in {1, MaxTime} :
                /\ rahti = [updated |-> u, entries |-> Dataset(n, own, at)]
                /\ map = BuildMap(Dataset(n, own, at))
    /\ call = [op |-> "init", entry |-> NoEntry, article |-> NoArticle,
               idx |-> NotFound, ret |-> NoEntry, flag |-> FALSE,
               old_rahti |-> rahti, old_map |-> map]
    /\ prune = PruneIdle
    /\ registry = RegistryIdle
    /\ extract = Off
    /\ pool = Off
    /\ run = Off
    /\ store = Off
    /\ art = Off
    /\ valid = Off

Find(entry) ==
    /\ call' = Call("find", entry, NoArticle,
                    [idx |-> find(map, entry), ret |-> NoEntry], FALSE)
    /\ UNCHANGED <<rahti, map>>

FindByArticle(article) ==
    /\ call' = Call("find_by_article", NoEntry, article,
                    [idx |-> NotFound, ret |-> find_by_article(map, rahti, article)], FALSE)
    /\ UNCHANGED <<rahti, map>>

NeedsUpdating(article) ==
    /\ call' = Call("needs_updating", NoEntry, article, NoRes,
                    needs_updating(rahti, map, article))
    /\ UNCHANGED <<rahti, map>>

Replace(entry) ==
    LET res == replace(rahti, map, entry) IN
    /\ rahti' = res.rahti
    /\ map' = res.map
    /\ call' = Call("replace", entry, NoArticle, res, FALSE)

Insert(entry) ==
    LET res == insert(rahti, map, entry) IN
    /\ rahti' = res.rahti
    /\ map' = res.map
    /\ call' = Call("insert", entry, NoArticle, res, FALSE)

Upsert(entry) ==
    LET res == upsert(rahti, map, entry) IN
    /\ rahti' = res.rahti
    /\ map' = res.map
    /\ call' = Call("upsert", entry, NoArticle, res, FALSE)

\* one call on a cleaner constructed on any of the datasets
CallFind ==
    /\ Constructed
    /\ \E entry \in Candidates : Find(entry)
    /\ UNCHANGED notCleaner

CallFindByArticle ==
    /\ Constructed
    /\ \E article \in Stubs : FindByArticle(article)
    /\ UNCHANGED notCleaner

CallNeedsUpdating ==
    /\ Constructed
    /\ \E article \in Articles : NeedsUpdating(article)
    /\ UNCHANGED notCleaner

CallReplace ==
    /\ Constructed
    /\ \E entry \in NewEntries : Replace(entry)
    /\ UNCHANGED notCleaner

CallInsert ==
    /\ Constructed
    /\ \E entry \in PlainEntries : Insert(entry)
    /\ UNCHANGED notCleaner

CallUpsert ==
    /\ Constructed
    /\ \E entry \in PlainEntries : Upsert(entry)
    /\ UNCHANGED notCleaner


NextCleaner ==
    \/ CallFind
    \/ CallFindByArticle
    \/ CallNeedsUpdating
    \/ CallReplace
    \/ CallInsert
    \/ CallUpsert

SpecCleaner == InitCleaner /\ [][NextCleaner]_vars

\* ------------------------------------------------ a call of prune_rahti
\* The entries of the list differ in outlet and age; the title tells them
\* apart.  The clock reads MaxDays and an entry is 0..MaxDays days old.
PruneTitles == <<"e1", "e2", "e3", "e4", "e5">>

PruneOutlets == {None, "yle", "hs"}

PruneEntry(k, outlet, updated) ==
    [updated |-> updated, urls |-> <<RahtiUrl(SignOrder[1])>>, title |-> PruneTitles[k],
     clickbaitiness |-> StoredMeta.clickbaitiness, labels |-> {}, outlet |-> outlet]

\* an entry was updated today, a day ago or MaxDays days ago
PruneAges == {0, 1, MaxDays}

\* the source "yle", with every combination of its settings
YleSources ==
    {NewsSource("yle", enabled, max_age_days, max_num_articles) :
        enabled \in BOOLEAN, max_age_days \in {NoLimit, 1},
        max_num_articles \in {NoLimit, 1, 2}}

\* the sources listed after it: none, "hs" capped, an unnamed one
OtherSources ==
    { <<>>,
      <<NewsSource("hs", TRUE, NoLimit, 1)>>,
      <<NewsSource(None, TRUE, NoLimit, NoLimit)>> }

SourceLists == {<<>>} \cup {<<yle>> \o others : yle \in YleSources, others \in OtherSources}

InitPrune ==
    /\ RestOff
    /\ \E n \in 0..MaxRahti :
          \E o \in [1..n -> PruneOutlets], age \in [1..n -> PruneAges],
             sources \in SourceLists :
                prune = [rahti |-> [k \in 1..n |-> PruneEntry(k, o[k], MaxDays - age[k])],
                         sources |-> sources, now |-> MaxDays,
                         pc |-> "call", filtered |-> <<>>, result |-> <<>>]
    /\ rahti = [updated |-> MinDate, entries |-> <<>>]
    /\ map = EmptyMap
    /\ call = CleanerIdle
    /\ registry = RegistryIdle
    /\ extract = Off
    /\ pool = Off
    /\ run = Off
    /\ store = Off
    /\ art = Off
    /\ valid = Off

Prune ==
    /\ prune.pc = "call"
    /\ LET res == prune_rahti(prune.rahti, prune.sources, prune.now) IN
       prune' = [prune EXCEPT !.pc = "done", !.filtered = res.filtered,
                              !.result = res.result]
    /\ UNCHANGED notPrune

NextPrune == Prune

SpecPrune == InitPrune /\ [][NextPrune]_vars

\* ------------------------------------------------- calls on the registry
Names == {"rss", "feed"}
Classes == {"RSSDiscoverer", "AdvancedRSSDiscoverer", "SitemapDiscoverer"}
Weights == {DefaultWeight, 80}

\* one name, or a list of names
NameLists == {<<n>> : n \in Names} \cup {<<"rss", "feed">>}

InitRegistry ==
    /\ RestOff
    /\ registry = RegistryIdle
    /\ rahti = [updated |-> MinDate, entries |-> <<>>]
    /\ map = EmptyMap
    /\ call = CleanerIdle
    /\ prune = PruneIdle
    /\ extract = Off
    /\ pool = Off
    /\ run = Off
    /\ store = Off
    /\ art = Off
    /\ valid = Off

\* the registrations so far, one record for each name of each call
RECURSIVE Logged(_, _, _)
Logged(names, cls, weight) ==
    IF names = <<>> THEN <<>>
    ELSE <<[name |-> Head(names), cls |-> cls, weight |-> weight]>>
            \o Logged(Tail(names), cls, weight)

Registered(names, cls, weight) ==
    [registry EXCEPT
        !.discoverers = register(registry.discoverers, names, cls, weight),
        !.log = registry.log \o Logged(names, cls, weight),
        !.got = <<>>]

\* @registry.register(names, weight=weight) on the class cls
Register ==
    /\ Len(registry.log) < MaxRegistrations
    /\ \E names \in NameLists, cls \in Classes, weight \in Weights :
          registry' = Registered(names, cls, weight)
    /\ UNCHANGED notRegistry

\* registry.register_discoverer(names, cls, weight)
RegisterDiscoverer ==
    /\ Len(registry.log) < MaxRegistrations
    /\ \E names \in NameLists, cls \in Classes, weight \in Weights :
          registry' = Registered(names, cls, weight)
    /\ UNCHANGED notRegistry

Get ==
    /\ registry.got = <<>>
    /\ \E name \in Names :
          registry' = [registry EXCEPT
              !.got = <<[name |-> name, cls |-> get(registry.discoverers, name)]>>]
    /\ UNCHANGED notRegistry

NextRegistry == Register \/ RegisterDiscoverer \/ Get

SpecRegistry == InitRegistry /\ [][NextRegistry]_vars

\* ------------------------------------------------- properties of the cleaner
Min(S) == CHOOSE x \in S : \A y \in S : x <= y

\* the entry of the call, before and after it
OldEntries == call.old_rahti.entries
OldAt(idx) == OldEntries[idx + 1]
NewAt(idx) == rahti.entries[idx + 1]

\* no signature occurs in two entries of the list
NoSharedSign(es) ==
    \A i, j \in 1..Len(es) : i # j => SignsOf(es[i]) \cap SignsOf(es[j]) = {}

\* 0-based index of the first entry of es that carries the first signature
\* of the list signs that occurs in es at all; NotFound if there is none
Holders(es, s) == {k \in 1..Len(es) : s \in SignsOf(es[k])}

ExpectedIndex(es, signs) ==
    LET present == {i \in 1..Len(signs) : Holders(es, signs[i]) # {}} IN
    IF present = {} THEN NotFound
    ELSE Min(Holders(es, signs[Min(present)])) - 1

SignList(entry) == [i \in 1..Len(entry.urls) |-> entry.urls[i].sign]
SignatureList(article) == [i \in 1..Len(article.urls) |-> article.urls[i].signature]

\* C1: replace(new) on a matching entry E keeps every signature of E: it is
\* still carried by the entry stored at E's index and is still a key of the
\* lookup map pointing at that index.
C1_ReplaceKeepsOldSignatures ==
    (call.op = "replace" /\ call.idx # NotFound) =>
        \A s \in SignsOf(OldAt(call.idx)) :
            /\ s \in SignsOf(NewAt(call.idx))
            /\ s \in DOMAIN map
            /\ map[s] = call.idx

\* C2: replace(new) on a matching entry E stores at E's index an entry with
\* updated = max(new.updated, E.updated), title = new.title if non-empty else
\* E.title, labels = E.labels union new.labels, outlet = new.outlet if set
\* else E.outlet.
C2_ReplaceMergeRule ==
    (call.op = "replace" /\ call.idx # NotFound) =>
        LET E == OldAt(call.idx)
            new == call.entry
            stored == NewAt(call.idx)
        IN /\ stored.updated = Max(new.updated, E.updated)
           /\ stored.title = (IF new.title # "" THEN new.title ELSE E.title)
           /\ stored.labels = E.labels \cup new.labels
           /\ stored.outlet = (IF new.outlet \notin {None, ""} THEN new.outlet ELSE E.outlet)
           /\ Len(rahti.entries) = Len(OldEntries)

\* E(title "Old", updated t1) replaced by new(title "", updated t2 > t1)
C2_Witness ==
    /\ call.op = "replace" /\ call.idx # NotFound
    /\ OldAt(call.idx).title = "Old" /\ call.entry.title = ""
    /\ call.entry.updated > OldAt(call.idx).updated
    /\ call.entry.outlet = None
    /\ NewAt(call.idx).title = "Old"
    /\ NewAt(call.idx).updated = call.entry.updated

\* C3: upsert(e) replaces the matched entry in place, leaving the number of
\* entries unchanged, if some signature of e is a key of the lookup map;
\* otherwise it appends e, the number of entries grows by exactly one and
\* every signature of e is indexed at the new entry.
C3_UpsertReplacesOrAppends ==
    call.op = "upsert" =>
        LET e == call.entry
            keys == SignsOf(e) \cap DOMAIN call.old_map
        IN IF keys # {}
           THEN /\ Len(rahti.entries) = Len(OldEntries)
                /\ \E s \in keys : call.idx = call.old_map[s]
                /\ \A k \in 1..Len(OldEntries) :
                      k # call.idx + 1 => rahti.entries[k] = OldEntries[k]
                /\ SignsOf(e) \subseteq SignsOf(NewAt(call.idx))
                /\ NewAt(call.idx).updated = Max(e.updated, OldAt(call.idx).updated)
           ELSE /\ Len(rahti.entries) = Len(OldEntries) + 1
                /\ rahti.entries = Append(OldEntries, e)
                /\ \A s \in SignsOf(e) : s \in DOMAIN map /\ map[s] = Len(OldEntries)

\* one stored entry with signature "abc", upsert of "abc" with a newer time
C3_Witness ==
    /\ call.op = "upsert"
    /\ Len(OldEntries) = 1 /\ SignsOf(OldEntries[1]) = {"abc"}
    /\ SignsOf(call.entry) = {"abc"}
    /\ call.entry.updated > OldEntries[1].updated
    /\ Len(rahti.entries) = 1
    /\ rahti.entries[1].updated = call.entry.updated

\* C4: on a cleaner constructed on a dataset in which no signature occurs in
\* two entries, find(candidate) is the index of the entry owning the first
\* signature of the candidate, in url order, that occurs in the dataset, and
\* not-found iff none occurs; find_by_article returns that entry.
C4_FindFirstMatch ==
    NoSharedSign(OldEntries) =>
        /\ call.op = "find" =>
              call.idx = ExpectedIndex(OldEntries, SignList(call.entry))
        /\ call.op = "find_by_article" =>
              LET idx == ExpectedIndex(OldEntries, SignatureList(call.article)) IN
              call.ret = IF idx = NotFound THEN NoEntry ELSE OldAt(idx)

\* the candidate's first signature is in no entry, its second one is owned by
\* the second entry
C4_Witness ==
    /\ call.op = "find" /\ NoSharedSign(OldEntries)
    /\ Len(OldEntries) = 2 /\ Len(call.entry.urls) = 2
    /\ Holders(OldEntries, call.entry.urls[1].sign) = {}
    /\ Holders(OldEntries, call.entry.urls[2].sign) = {2}
    /\ call.idx = 1

\* the later of the timestamps an article has
Latest(article) ==
    IF article.updated_at = NoDate THEN article.created_at
    ELSE IF article.created_at = NoDate THEN article.updated_at
    ELSE Max(article.updated_at, article.created_at)

\* C5: needs_updating(article) is true if the article has no timestamp;
\* otherwise true if no stored entry carries a signature of the article;
\* otherwise true iff the later of its timestamps is strictly greater than
\* the matched entry's updated.
C5_NeedsUpdating ==
    call.op = "needs_updating" =>
        LET a == call.article
            idx == ExpectedIndex(OldEntries, SignatureList(a))
        IN call.flag =
              IF a.updated_at = NoDate /\ a.created_at = NoDate THEN TRUE
              ELSE IF idx = NotFound THEN TRUE
              ELSE Latest(a) > OldAt(idx).updated

\* an article exactly as old as the entry it matches is not admitted
C5_Witness ==
    /\ call.op = "needs_updating"
    /\ call.article.updated_at # NoDate /\ call.article.created_at # NoDate
    /\ ExpectedIndex(OldEntries, SignatureList(call.article)) # NotFound
    /\ Latest(call.article) =
          OldAt(ExpectedIndex(OldEntries, SignatureList(call.article))).updated
    /\ call.flag = FALSE

\* ---------------------------------------------------- properties of pruning
Pruned == prune.pc = "done"

SourcesNamed(name) ==
    {i \in 1..Len(prune.sources) : prune.sources[i].name = name}

\* the outlet is the name of a source, and of no disabled one
EnabledOutlet(outlet) ==
    /\ Truthy(outlet)
    /\ SourcesNamed(outlet) # {}
    /\ \A i \in SourcesNamed(outlet) : prune.sources[i].enabled

SourceOf(outlet) == prune.sources[CHOOSE i \in SourcesNamed(outlet) : TRUE]

\* C6: prune_rahti drops every entry whose outlet is missing, is not the name
\* of a configured source or is the name of a disabled source, whatever its
\* age; with no enabled named source the result is empty.
C6_UnknownOutletDropped ==
    Pruned =>
        /\ \A k \in 1..Len(prune.result) : EnabledOutlet(prune.result[k].outlet)
        /\ (\A i \in 1..Len(prune.sources) :
               ~(prune.sources[i].enabled /\ Truthy(prune.sources[i].name)))
              => prune.result = <<>>

\* an entry updated right now whose outlet no source is named after is
\* dropped, while some other entry survives
C6_Witness ==
    /\ Pruned
    /\ prune.result # <<>>
    /\ \E k \in 1..Len(prune.rahti) :
          /\ prune.rahti[k].updated = prune.now
          /\ prune.rahti[k].outlet = "hs"
          /\ SourcesNamed("hs") = {}
          /\ prune.rahti[k] \notin Range(prune.result)

\* C7: an entry whose outlet is an enabled source with max_age_days = d is
\* removed by the age pass iff its updated is strictly older than now - d
\* days; with max_age_days unset it is never removed for its age.
C7_AgeBoundaryInclusive ==
    Pruned =>
        \A k \in 1..Len(prune.rahti) :
            LET entry == prune.rahti[k] IN
            EnabledOutlet(entry.outlet) =>
                LET d == SourceOf(entry.outlet).max_age_days IN
                (entry \notin Range(prune.filtered))
                    <=> (d # NoLimit /\ entry.updated < prune.now - d)

\* of two entries of a source with max_age_days = 1 the one exactly one day
\* old is kept and the one two days old is removed
C7_Witness ==
    /\ Pruned
    /\ \E j, k \in 1..Len(prune.rahti) :
          /\ prune.rahti[j].outlet = "yle" /\ prune.rahti[k].outlet = "yle"
          /\ EnabledOutlet("yle") /\ SourceOf("yle").max_age_days = 1
          /\ prune.rahti[j].updated = prune.now - 1
          /\ prune.rahti[k].updated = prune.now - 2
          /\ prune.rahti[j] \in Range(prune.filtered)
          /\ prune.rahti[k] \notin Range(prune.filtered)

\* the number of entries of the same outlet that a stable sort on updated,
\* newest first, puts before entry i of the list
Rank(list, i) ==
    Cardinality({j \in 1..Len(list) :
        /\ list[j].outlet = list[i].outlet
        /\ \/ list[j].updated > list[i].updated
           \/ list[j].updated = list[i].updated /\ j < i})

\* C8: of the age-surviving entries of an outlet whose source sets
\* max_num_articles = N exactly the first N of a stable descending sort on
\* updated are kept; the entries of an outlet without a cap are all kept.
C8_NewestPerOutletKept ==
    Pruned =>
        /\ Range(prune.result) \subseteq Range(prune.filtered)
        /\ \A i \in 1..Len(prune.filtered) :
              LET N == SourceOf(prune.filtered[i].outlet).max_num_articles IN
              (prune.filtered[i] \in Range(prune.result))
                  <=> (N = NoLimit \/ Rank(prune.filtered, i) < N)

\* a cap of 2 and three surviving entries, the two oldest of equal updated:
\* the earlier of the two is kept, the later one dropped
C8_Witness ==
    /\ Pruned
    /\ EnabledOutlet("yle") /\ SourceOf("yle").max_num_articles = 2
    /\ \E i, j, k \in 1..Len(prune.filtered) :
          /\ i < j
          /\ prune.filtered[i].outlet = "yle"
          /\ prune.filtered[j].outlet = "yle"
          /\ prune.filtered[k].outlet = "yle"
          /\ prune.filtered[i].updated = prune.filtered[j].updated
          /\ prune.filtered[k].updated > prune.filtered[i].updated
          /\ prune.filtered[i] \in Range(prune.result)
          /\ prune.filtered[k] \in Range(prune.result)
          /\ prune.filtered[j] \notin Range(prune.result)

RECURSIVE IsSubsequence(_, _)
IsSubsequence(a, b) ==
    \/ a = <<>>
    \/ /\ b # <<>>
       /\ IF Head(a) = Head(b) THEN IsSubsequence(Tail(a), Tail(b))
          ELSE IsSubsequence(a, Tail(b))

\* C9: the list prune_rahti returns is a subsequence of its input: only input
\* entries, each at most once, in the order of the input.  (The call leaves
\* its argument as it was: Prune changes the result fields only.)
C9_ResultIsSubsequence ==
    Pruned =>
        /\ IsSubsequence(prune.result, prune.rahti)
        /\ \A i, j \in 1..Len(prune.result) :
              i # j => prune.result[i] # prune.result[j]

\* a cap drops an entry and the kept ones stay in input order, the older one
\* first
C9_Witness ==
    /\ Pruned
    /\ Len(prune.result) >= 2
    /\ Len(prune.result) < Len(prune.filtered)
    /\ prune.result[1].outlet = prune.result[2].outlet
    /\ prune.result[1].updated < prune.result[2].updated

\* ----------------------------------------------- properties of the registry
\* the registrations under a name, as positions of the log
LogOf(name) == {i \in 1..Len(registry.log) : registry.log[i].name = name}

\* the weight a class was last registered with under a name
LastOf(name, cls) ==
    CHOOSE i \in LogOf(name) :
        /\ registry.log[i].cls = cls
        /\ \A j \in LogOf(name) : registry.log[j].cls = cls => j <= i

FirstOf(name, cls) ==
    CHOOSE i \in LogOf(name) :
        /\ registry.log[i].cls = cls
        /\ \A j \in LogOf(name) : registry.log[j].cls = cls => i <= j

WeightOf(name, cls) == registry.log[LastOf(name, cls)].weight

ClassesOf(name) == {registry.log[i].cls : i \in LogOf(name)}

\* C10: get(name) returns the handler registered under the name with the
\* highest weight and, among the handlers of equal highest weight, the one
\* registered first; get of a name never registered returns none.
C10_GetHighestWeightFirstRegistered ==
    \A k \in 1..Len(registry.got) :
        LET name == registry.got[k].name
            cls == registry.got[k].cls
        IN IF ClassesOf(name) = {} THEN cls = None
           ELSE /\ cls \in ClassesOf(name)
                /\ \A other \in ClassesOf(name) \ {cls} :
                      \/ WeightOf(name, cls) > WeightOf(name, other)
                      \/ /\ WeightOf(name, cls) = WeightOf(name, other)
                         /\ FirstOf(name, cls) < FirstOf(name, other)


\* ------------------------------------------------------- get_extractor
MaxExtractors == 2
MaxUrlLen == 2

\* the characters of a url and of a rule; "." is the wildcard of a regex
Chars == {"a", "b", "."}

CandidateUrls == UNION {[1..n -> Chars] : n \in 1..MaxUrlLen}

\* a compiled regex: one token for each position
Lit(c) == [any |-> FALSE, ch |-> c]
AnyChar == [any |-> TRUE, ch |-> "."]

\* re.compile("^" + re.escape(text)): every character stands for itself
compile_escaped(text) == [i \in 1..Len(text) |-> Lit(text[i])]

\* a Pattern the extractor compiled itself: "." matches any character
compile_pattern(text) ==
    [i \in 1..Len(text) |-> IF text[i] = "." THEN AnyChar ELSE Lit(text[i])]

\* Pattern.match(url): the pattern has to match at the start of the url
match(pattern, url) ==
    /\ Len(pattern) <= Len(url)
    /\ \A i \in 1..Len(pattern) : pattern[i].any \/ pattern[i].ch = url[i]

\* a rule of valid_url: a str, a Pattern, or a value of another type
StrRule(text) == [kind |-> "str", text |-> text]
ReRule(text) == [kind |-> "Pattern", text |-> text]
BadRule == [kind |-> "int", text |-> <<>>]

WellTyped(rule) == rule.kind \in {"str", "Pattern"}

\* the first loop of get_extractor: "bad" when a rule is neither str nor Pattern
Compiled(rule) ==
    IF rule.kind = "Pattern" THEN compile_pattern(rule.text)
    ELSE compile_escaped(rule.text)

Outlet(name, weight, valid_url) ==
    [name |-> name, weight |-> weight, valid_url |-> valid_url]

\* variant: ascending weights
RECURSIVE InsertOutlet_ascending(_, _)
InsertOutlet_ascending(sorted, o) ==
    IF sorted = <<>> THEN <<o>>
    ELSE IF Head(sorted).weight <= o.weight
         THEN <<Head(sorted)>> \o InsertOutlet_ascending(Tail(sorted), o)
         ELSE <<o>> \o sorted

\* sorted(default_extractors, key=weight, reverse=True): stable
RECURSIVE InsertOutlet(_, _)
InsertOutlet(sorted, o) ==
    IF sorted = <<>> THEN <<o>>
    ELSE IF Head(sorted).weight >= o.weight
         THEN <<Head(sorted)>> \o InsertOutlet(Tail(sorted), o)
         ELSE <<o>> \o sorted

RECURSIVE get_extractors(_)
get_extractors(default_extractors) ==
    IF default_extractors = <<>> THEN <<>>
    ELSE InsertOutlet(get_extractors(SubSeq(default_extractors, 1,
                                            Len(default_extractors) - 1)),
                      default_extractors[Len(default_extractors)])

NoOutlet == Outlet(None, 0, <<>>)
Returned(o) == [raised |-> None, outlet |-> o]
Raised(what) == [raised |-> what, outlet |-> NoOutlet]

\* the loop of get_extractor over the sorted extractors
RECURSIVE MatchFirst(_, _)
MatchFirst(outlets, url) ==
    IF outlets = <<>> THEN Raised("ValueError: No outlet parse found")
    ELSE LET outlet == Head(outlets)
             outlet_urls == outlet.valid_url IN
         IF \E i \in 1..Len(outlet_urls) : ~WellTyped(outlet_urls[i])
         THEN Raised("ValueError: Invalid outlet URL rule type")
         ELSE IF \E i \in 1..Len(outlet_urls) : match(Compiled(outlet_urls[i]), url)
              THEN Returned(outlet)
              ELSE MatchFirst(Tail(outlets), url)

get_extractor(default_extractors, url) ==
    MatchFirst(get_extractors(default_extractors), url)

\* the valid_url of an extractor: one rule (wrapped into a list by
\* get_extractor) or a list of rules
ValidUrls ==
    { <<StrRule(<<"a">>)>>, <<StrRule(<<".">>)>>, <<StrRule(<<"a", ".">>)>>,
      <<ReRule(<<".">>)>>, <<ReRule(<<"b", ".">>)>>,
      <<StrRule(<<"b">>), ReRule(<<".", "a">>)>>,
      <<BadRule>> }

OutletNames == <<"Yle", "Generic", "Tivi">>
OutletWeights == {20, DefaultWeight}

InitExtract ==
    /\ RestOff
    /\ \E n \in 0..MaxExtractors :
          \E w \in [1..n -> OutletWeights], v \in [1..n -> ValidUrls],
             url \in CandidateUrls :
                extract = [pc |-> "call", url |-> url,
                           extractors |-> [k \in 1..n |-> Outlet(OutletNames[k], w[k], v[k])],
                           res |-> Raised(None)]
    /\ rahti = [updated |-> MinDate, entries |-> <<>>]
    /\ map = EmptyMap
    /\ call = CleanerIdle
    /\ prune = PruneIdle
    /\ registry = RegistryIdle
    /\ pool = Off
    /\ run = Off
    /\ store = Off
    /\ art = Off
    /\ valid = Off

GetExtractor ==
    /\ extract.pc = "call"
    /\ extract' = [extract EXCEPT !.pc = "done",
                       !.res = get_extractor(extract.extractors, extract.url)]
    /\ UNCHANGED notExtract

NextExtract == GetExtractor

SpecExtract == InitExtract /\ [][NextExtract]_vars

\* a literal prefix
IsPrefix(text, url) ==
    Len(text) <= Len(url) /\ \A i \in 1..Len(text) : text[i] = url[i]

\* the regex, read position by position, accepts the start of the url
RegexAtStart(text, url) ==
    Len(text) <= Len(url) /\ \A i \in 1..Len(text) : text[i] \in {".", url[i]}

RuleMatches(rule, url) ==
    IF rule.kind = "str" THEN IsPrefix(rule.text, url) ELSE RegexAtStart(rule.text, url)

Matches(o, url) == \E i \in 1..Len(o.valid_url) : RuleMatches(o.valid_url[i], url)

Extracted == extract.pc = "done"

AllWellTyped ==
    \A k \in 1..Len(extract.extractors) :
       \A i \in 1..Len(extract.extractors[k].valid_url) :
          WellTyped(extract.extractors[k].valid_url[i])

MaxItems == 3

\* an item handed to a worker: a source (fetch_latest), a stub
\* (fetch_full_articles) or an article (generate_titles); fails tells whether
\* its worker raises an Exception, yield how many articles fetch_source finds
Item(id, enabled, fails, yield) ==
    [id |-> id, enabled |-> enabled, fails |-> fails, yield |-> yield]

\* Yielded(source=source, article=article) for article in result
Discovered(item) == [k \in 1..item.yield |-> [source |-> item.id, article |-> k]]

\* variant: the failed item leaves an empty result behind
Collected_placeholder(ret, item) ==
    IF item.fails THEN Append(ret, [source |-> item.id, article |-> 0])
    ELSE ret \o Discovered(item)

\* try: ret.extend(future.result()) except Exception: log and go on
Collected(ret, item) ==
    IF item.fails THEN ret ELSE ret \o Discovered(item)

InitPool ==
    /\ RestOff
    /\ \E phase \in {"fetch_latest", "fetch_full_articles", "generate_titles"} :
          \E n \in 0..MaxItems :
             \E en \in [1..n -> IF phase = "fetch_latest" THEN BOOLEAN ELSE {TRUE}],
                f \in [1..n -> BOOLEAN],
                y \in [1..n -> IF phase = "fetch_latest" THEN {1, 2} ELSE {1}] :
                   pool = [pc |-> "running", phase |-> phase,
                           items |-> [k \in 1..n |-> Item(k, en[k], f[k], y[k])],
                           done |-> {}, ret |-> <<>>, raised |-> None]
    /\ rahti = [updated |-> MinDate, entries |-> <<>>]
    /\ map = EmptyMap
    /\ call = CleanerIdle
    /\ prune = PruneIdle
    /\ registry = RegistryIdle
    /\ extract = Off
    /\ run = Off
    /\ store = Off
    /\ art = Off
    /\ valid = Off

Running(phase) == pool.pc = "running" /\ pool.phase = phase

\* the ids of the items whose futures the loop has still to wait for
Pending ==
    {k \in 1..Len(pool.items) :
        /\ k \notin pool.done
        /\ pool.phase = "fetch_latest" => pool.items[k].enabled}

\* fetch_latest: the futures are waited for in the order of the enabled sources
FetchLatestNext ==
    /\ Running("fetch_latest")
    /\ Pending # {}
    /\ LET k == CHOOSE j \in Pending : \A m \in Pending : j <= m IN
       pool' = [pool EXCEPT !.done = @ \cup {k},
                            !.ret = Collected(@, pool.items[k])]
    /\ UNCHANGED notPool

FetchLatestReturn ==
    /\ Running("fetch_latest")
    /\ Pending = {}
    /\ pool' = [pool EXCEPT !.pc = "returned"]
    /\ UNCHANGED notPool

\* fetch_full_articles: the stubs are shuffled, then each is submitted and
\* waited for in turn
FetchFullNext ==
    /\ Running("fetch_full_articles")
    /\ \E k \in Pending :
          pool' = [pool EXCEPT !.done = @ \cup {k},
                               !.ret = Collected(@, pool.items[k])]
    /\ UNCHANGED notPool

FetchFullReturn ==
    /\ Running("fetch_full_articles")
    /\ Pending = {}
    /\ pool' = [pool EXCEPT !.pc = "returned"]
    /\ UNCHANGED notPool

\* generate_titles: result = future.result() is not guarded, so the
\* predictor's exception leaves generate_titles
GenerateTitlesNext ==
    /\ Running("generate_titles")
    /\ Pending # {}
    /\ LET k == CHOOSE j \in Pending : \A m \in Pending : j <= m IN
       IF pool.items[k].fails
       THEN pool' = [pool EXCEPT !.pc = "raised", !.done = @ \cup {k},
                                 !.raised = "Exception"]
       ELSE pool' = [pool EXCEPT !.done = @ \cup {k},
                                 !.ret = @ \o Discovered(pool.items[k])]
    /\ UNCHANGED notPool

GenerateTitlesReturn ==
    /\ Running("generate_titles")
    /\ Pending = {}
    /\ pool' = [pool EXCEPT !.pc = "returned"]
    /\ UNCHANGED notPool

NextPool ==
    \/ FetchLatestNext \/ FetchLatestReturn
    \/ FetchFullNext \/ FetchFullReturn
    \/ GenerateTitlesNext \/ GenerateTitlesReturn

SpecPool == InitPool /\ [][NextPool]_vars

\* the items the phase works on, and those whose worker succeeds
Worked ==
    {k \in 1..Len(pool.items) : pool.phase = "fetch_latest" => pool.items[k].enabled}
Succeeded == {k \in Worked : ~pool.items[k].fails}

ResultsOf(k) == {i \in 1..Len(pool.ret) : pool.ret[i].source = k}

\* every successful item has all its results in ret, once each, and nothing
\* else is in ret
ExactlySucceeded ==
    /\ \A k \in Succeeded :
          /\ Cardinality(ResultsOf(k)) = pool.items[k].yield
          /\ {pool.ret[i].article : i \in ResultsOf(k)} = 1..pool.items[k].yield
    /\ \A i \in 1..Len(pool.ret) : pool.ret[i].source \in Succeeded

\* C12: fetch_latest and fetch_full_articles never raise to the caller because
\* of a worker's exception; every item is processed, and the list returned
\* holds the results of exactly the items whose worker succeeded.
C12_FetchIsolatesFailures ==
    (pool.pc # "off" /\ pool.phase \in {"fetch_latest", "fetch_full_articles"}) =>
        /\ pool.pc # "raised"
        /\ pool.raised = None
        /\ pool.pc = "returned" => (pool.done = Worked /\ ExactlySucceeded)

\* three items, the second one fails, the results of the first and the third
\* are returned
C12_Witness ==
    /\ pool.pc = "returned"
    /\ pool.phase = "fetch_full_articles"
    /\ Len(pool.items) = 3
    /\ {k \in 1..3 : pool.items[k].fails} = {2}
    /\ {pool.ret[i].source : i \in 1..Len(pool.ret)} = {1, 3}

\* C13: when the predictor raises for one article, generate_titles does not
\* raise to its caller: it drops that article and returns the title results
\* of all the others.
C13_TitleFailureIsolated ==
    (pool.pc # "off" /\ pool.phase = "generate_titles") =>
        /\ pool.pc # "raised"
        /\ pool.pc = "returned" => (pool.done = Worked /\ ExactlySucceeded)



\* ------------------------------------------------------------------- run
MaxRunArticles == 2
MaxOldEntries == 2

\* prune_old_entries(old_entries, max_age_days=3)
PruneMaxAgeDays == 3

\* the day of the run
RunNow == 5

SignSets == {{"abc"}, {"def"}, {"abc", "def"}}

\* an article as discovered: the signatures of its urls (hash_url of each
\* href) and updated_at
RunArticle(signs, updated_at) == [signs |-> signs, updated_at |-> updated_at]

RunArticles == {RunArticle(g, u) : g \in SignSets, u \in {NoDate, 1, RunNow}}

\* an entry of the stored data.json: the signatures of its urls and "updated"
RunEntry(signs, updated) == [signs |-> signs, updated |-> updated]

StoredEntries == {RunEntry(g, u) : g \in {{"abc"}, {"abc", "def"}}, u \in {1, 2}}

\* articles[start : start + amount], 0-based
Slice(seq, start, stop) ==
    LET lo == IF start > Len(seq) THEN Len(seq) ELSE start
        hi == IF stop > Len(seq) THEN Len(seq) ELSE stop IN
    IF hi <= lo THEN <<>> ELSE SubSeq(seq, lo + 1, hi)

\* the index of the first old entry whose signature set equals news, 0 if none
RECURSIVE FirstEqual(_, _, _)
FirstEqual(old_entries, news, j) ==
    IF j > Len(old_entries) THEN 0
    ELSE IF old_entries[j].signs = news THEN j
         ELSE FirstEqual(old_entries, news, j + 1)

\* filter_outdated: "raise" when an article that matches an old entry has no
\* updated_at (None > datetime is a TypeError)
RECURSIVE filter_outdated(_, _)
filter_outdated(articles, old_entries) ==
    IF articles = <<>> THEN [raised |-> None, new_articles |-> <<>>]
    ELSE LET a == Head(articles)
             j == FirstEqual(old_entries, a.signs, 1)
             rest == filter_outdated(Tail(articles), old_entries) IN
         IF j # 0 /\ a.updated_at = NoDate
         THEN [raised |-> "TypeError", new_articles |-> <<>>]
         ELSE IF rest.raised # None THEN rest
         ELSE IF j = 0 \/ a.updated_at > old_entries[j].updated
              THEN [rest EXCEPT !.new_articles = <<a>> \o @]
              ELSE rest

\* prune_old_entries: entries of exactly max_age_days days are kept
RECURSIVE prune_old_entries(_, _, _)
prune_old_entries(old_entries, max_age_days, now) ==
    IF old_entries = <<>> THEN <<>>
    ELSE (IF now - Head(old_entries).updated <= max_age_days
          THEN <<Head(old_entries)>> ELSE <<>>)
            \o prune_old_entries(Tail(old_entries), max_age_days, now)

\* convert_for_publish: one entry for each (article, title)
convert_for_publish(title_data) ==
    [k \in 1..Len(title_data) |->
        RunEntry(title_data[k].signs, title_data[k].updated_at)]

\* the index of the first old signature set that shares a signature with
\* news, 0 if none
RECURSIVE FirstOverlap(_, _, _)
FirstOverlap(old_signatures, news, j) ==
    IF j > Len(old_signatures) THEN 0
    ELSE IF old_signatures[j] \cap news # {} THEN j
         ELSE FirstOverlap(old_signatures, news, j + 1)

\* merge_updates: old_signatures is computed once, before the loop
RECURSIVE MergeFrom(_, _, _)
MergeFrom(entries, old_signatures, new_entries) ==
    IF new_entries = <<>> THEN entries
    ELSE LET e == Head(new_entries)
             j == FirstOverlap(old_signatures, e.signs, 1) IN
         MergeFrom(IF j # 0 THEN [entries EXCEPT ![j] = e] ELSE Append(entries, e),
                   old_signatures, Tail(new_entries))

merge_updates(old_entries, new_entries) ==
    MergeFrom(old_entries, [k \in 1..Len(old_entries) |-> old_entries[k].signs],
              new_entries)

RunStart ==
    [pc |-> "fetch_latest", articles |-> <<>>, old_entries |-> <<>>,
     new_articles |-> <<>>, title_data |-> <<>>, new_entries |-> <<>>,
     entries |-> <<>>, pushes |-> <<>>, trace |-> <<>>, raised |-> None]

InitRun ==
    /\ RestOff
    /\ run = RunStart
    /\ rahti = [updated |-> MinDate, entries |-> <<>>]
    /\ map = EmptyMap
    /\ call = CleanerIdle
    /\ prune = PruneIdle
    /\ registry = RegistryIdle
    /\ extract = Off
    /\ pool = Off
    /\ store = Off
    /\ art = Off
    /\ valid = Off

At(pc) == run.pc = pc

Step(name) == Append(run.trace, name)

\* articles = fetch_latest(), then the slices asked for on the command line
\* (range_amount has its default, 1; 0 stands for an option that is not given)
RunFetchLatest ==
    /\ At("fetch_latest")
    /\ \E n \in 0..MaxRunArticles :
          \E as \in [1..n -> RunArticles], range_start \in {0, 1}, article_limit \in {0, 1} :
             LET ranged == IF range_start # 0
                           THEN Slice(as, range_start, range_start + 1) ELSE as
                 limited == IF article_limit # 0
                            THEN Slice(ranged, 0, article_limit) ELSE ranged IN
             run' = [run EXCEPT !.pc = "fetch_old_data", !.articles = limited,
                                !.trace = Step("fetch_latest")]
    /\ UNCHANGED notRun

\* hash_of_stored_file, old_data = fetch_old_data()
RunFetchOldData ==
    /\ At("fetch_old_data")
    /\ \E n \in 0..MaxOldEntries :
          \E es \in [1..n -> StoredEntries] :
             run' = [run EXCEPT !.pc = "filter_outdated", !.old_entries = es,
                                !.trace = Step("fetch_old_data")]
    /\ UNCHANGED notRun

RunFilterOutdated ==
    /\ At("filter_outdated")
    /\ LET res == filter_outdated(run.articles, run.old_entries) IN
       IF res.raised # None
       THEN run' = [run EXCEPT !.pc = "raised", !.raised = res.raised,
                               !.trace = Step("filter_outdated")]
       ELSE run' = [run EXCEPT !.pc = "fetch_articles",
                               !.new_articles = res.new_articles,
                               !.trace = Step("filter_outdated")]
    /\ UNCHANGED notRun

\* fetch_articles: for the first stub, trafilatura_extractor raises or returns
\* a TrafilaturaArticle, and article_object.merge(stub) raises AttributeError,
\* Article having no method merge; with no stub it returns []
RunFetchArticles ==
    /\ At("fetch_articles")
    /\ IF run.new_articles # <<>>
       THEN run' = [run EXCEPT !.pc = "raised", !.raised = "AttributeError",
                               !.trace = Step("fetch_articles")]
       ELSE run' = [run EXCEPT !.pc = "prune_old_entries",
                               !.trace = Step("fetch_articles")]
    /\ UNCHANGED notRun

RunPruneOldEntries ==
    /\ At("prune_old_entries")
    /\ run' = [run EXCEPT !.pc = "process_titles",
                  !.old_entries = prune_old_entries(@, PruneMaxAgeDays, RunNow),
                  !.trace = Step("prune_old_entries")]
    /\ UNCHANGED notRun

\* process_titles: predictor.run(article) for each article
RunProcessTitles ==
    /\ At("process_titles")
    /\ run' = [run EXCEPT !.pc = "merge_updates", !.title_data = run.new_articles,
                          !.trace = Step("process_titles")]
    /\ UNCHANGED notRun

\* new_entries = convert_for_publish(title_data), then merge_updates and the
\* commit message
RunMergeUpdates ==
    /\ At("merge_updates")
    /\ LET new_entries == convert_for_publish(run.title_data) IN
       run' = [run EXCEPT !.pc = "store_results", !.new_entries = new_entries,
                          !.entries = merge_updates(run.old_entries, new_entries),
                          !.trace = Step("merge_updates")]
    /\ UNCHANGED notRun

\* store_results: the PUT is accepted
RunStoreResults ==
    /\ At("store_results")
    /\ run' = [run EXCEPT !.pc = "done", !.pushes = Append(@, run.entries),
                          !.trace = Step("store_results")]
    /\ UNCHANGED notRun

\* store_results: the PUT is refused and store_results raises
RunStoreRefused ==
    /\ At("store_results")
    /\ run' = [run EXCEPT !.pc = "raised", !.raised = "Exception",
                          !.trace = Step("store_results")]
    /\ UNCHANGED notRun

NextRun ==
    \/ RunFetchLatest \/ RunFetchOldData \/ RunFilterOutdated \/ RunFetchArticles
    \/ RunPruneOldEntries \/ RunProcessTitles \/ RunMergeUpdates
    \/ RunStoreResults \/ RunStoreRefused

SpecRun == InitRun /\ [][NextRun]_vars

Did(name) == \E i \in 1..Len(run.trace) : run.trace[i] = name
When(name) == CHOOSE i \in 1..Len(run.trace) : run.trace[i] = name

Filtered == run.pc # "off" /\ Did("filter_outdated") /\ run.raised # "TypeError"

\* C14: when no article is left after filter_outdated, the run ends without
\* a call of the title predictor and without a push to the store.
C14_EmptyRunEndsEarly ==
    (Filtered /\ run.new_articles = <<>>) =>
        /\ ~Did("process_titles")
        /\ ~Did("store_results")
        /\ run.pushes = <<>>

\* C15: in a run that pushes, the prune step comes after the merge of the new
\* entries and before the push, and no pushed entry is older than the
\* maximum age.
C15_PruneAfterMergeBeforePush ==
    (run.pc # "off" /\ run.pushes # <<>>) =>
        /\ Did("merge_updates") /\ Did("prune_old_entries")
        /\ When("merge_updates") < When("prune_old_entries")
        /\ When("prune_old_entries") < When("store_results")
        /\ \A k \in 1..Len(run.pushes[1]) :
              RunNow - run.pushes[1][k].updated <= PruneMaxAgeDays


\* ------------------------------------------------------ RahtiFile, RahtiRepo
MaxPushes == 3

Backends == {"RahtiRepo", "RahtiFile"}
Clients == {1, 2}

\* the datasets a run may push; "d0" is stored at the start
Datasets == {"d0", "d1", "d2"}

\* the sha of the stored file: the contents API names a blob by the hash of
\* its content
Sha(data) == <<"sha", data>>

\* RahtiFile.pull returns the path of the file as the token
FilePath == "file:///rahti/data.json"

\* pull: (token, data)
pull(backend, content) ==
    IF backend = "RahtiRepo" THEN [token |-> Sha(content), data |-> content]
    ELSE [token |-> FilePath, data |-> content]

\* push: RahtiRepo PUTs the file with the sha it pulled, and the repository
\* refuses a sha that is not the stored file's (raise_for_status raises);
\* RahtiFile opens the file for writing and writes, the token is not read
push(backend, content, hash_of_stored_file, data) ==
    IF backend = "RahtiRepo"
    THEN IF hash_of_stored_file = Sha(content)
         THEN [ok |-> TRUE, content |-> data]
         ELSE [ok |-> FALSE, content |-> content]
    ELSE [ok |-> TRUE, content |-> data]

NoToken == "None"

InitStore ==
    /\ RestOff
    /\ \E backend \in Backends :
          store = [pc |-> "up", backend |-> backend, content |-> "d0",
                   token |-> [c \in Clients |-> NoToken],
                   pulled |-> [c \in Clients |-> "None"],
                   log |-> <<>>]
    /\ rahti = [updated |-> MinDate, entries |-> <<>>]
    /\ map = EmptyMap
    /\ call = CleanerIdle
    /\ prune = PruneIdle
    /\ registry = RegistryIdle
    /\ extract = Off
    /\ pool = Off
    /\ run = Off
    /\ art = Off
    /\ valid = Off

\* a run pulls the dataset
Pull ==
    /\ store.pc = "up"
    /\ Len(store.log) < MaxPushes
    /\ \E c \in Clients :
          LET res == pull(store.backend, store.content) IN
          store' = [store EXCEPT !.token[c] = res.token, !.pulled[c] = res.data]
    /\ UNCHANGED notStore

\* a run pushes a dataset with the token of its last pull
Push ==
    /\ store.pc = "up"
    /\ Len(store.log) < MaxPushes
    /\ \E c \in Clients, data \in Datasets :
          /\ store.token[c] # NoToken
          /\ LET res == push(store.backend, store.content, store.token[c], data) IN
             store' = [store EXCEPT
                 !.content = res.content,
                 !.log = Append(@, [client |-> c, token |-> store.token[c],
                                    base |-> store.pulled[c], data |-> data,
                                    ok |-> res.ok,
                                    before |-> store.content,
                                    after |-> res.content])]
    /\ UNCHANGED notStore

NextStore == Pull \/ Push

SpecStore == InitStore /\ [][NextStore]_vars

\* C16: a push made when the stored dataset is no longer the one its token
\* was pulled with (the store has been modified since the pull) fails and
\* leaves the stored dataset unchanged, with RahtiRepo and with RahtiFile alike.
C16_StalePushFails ==
    store.pc # "off" =>
        \A i \in 1..Len(store.log) :
           store.log[i].before # store.log[i].base =>
              (~store.log[i].ok /\ store.log[i].after = store.log[i].before)


\* ------------------------------------------- ArticleUrl.signature, Article
MaxArtUrls == 2

Canonical == "link-rel=canonical"
Alternate == "link-rel=alternate"

\* what Suola does with an href: "a" and "a?ref" are the same page, "x" and
\* "y" are urls no rule gives a signature to (Suola returns None), and for
\* "bad" normalization fails and Suola raises
Suola(href) ==
    CASE href \in {"a", "a?ref"} -> [raised |-> None, sign |-> "abc"]
      [] href = "b" -> [raised |-> None, sign |-> "def"]
      [] href \in {"x", "y"} -> [raised |-> None, sign |-> None]
      [] OTHER -> [raised |-> "Exception", sign |-> None]

\* hash_url: the exception of Suola is logged and raised again
hash_url(url) == Suola(url)

\* ArticleUrl.signature: sign if sign else ""
signature(url) ==
    LET h == hash_url(url.href) IN
    IF h.raised # None THEN [raised |-> h.raised, sign |-> None]
    ELSE [raised |-> None, sign |-> IF h.sign = None THEN "" ELSE h.sign]

Url(href, labels) == [href |-> href, labels |-> labels]

Raises(urls) == \E i \in 1..Len(urls) : signature(urls[i]).raised # None

SignaturesOf(urls) == {signature(urls[i]).sign : i \in 1..Len(urls)}

CanonicalSignatures(urls) ==
    {signature(urls[i]).sign : i \in {j \in 1..Len(urls) : Canonical \in urls[j].labels}}

\* set(canonical signatures) or set(all signatures)
EqSide(urls) ==
    IF CanonicalSignatures(urls) # {} THEN CanonicalSignatures(urls)
    ELSE SignaturesOf(urls)

\* the signatures one side of __eq__ computes: those of the canonical urls,
\* and those of all urls when that set is empty
EqRaises(urls) ==
    LET canonical == {j \in 1..Len(urls) : Canonical \in urls[j].labels} IN
    \/ \E j \in canonical : signature(urls[j]).raised # None
    \/ canonical = {} /\ Raises(urls)

\* variant: when either article has a canonical url, both sides are restricted
\* to their canonical urls
article_eq_either(self, other) ==
    IF self.id = other.id THEN [raised |-> None, eq |-> TRUE]
    ELSE IF EqRaises(self.urls) \/ EqRaises(other.urls)
         THEN [raised |-> "Exception", eq |-> FALSE]
         ELSE IF CanonicalSignatures(self.urls) # {} \/ CanonicalSignatures(other.urls) # {}
              THEN [raised |-> None,
                    eq |-> CanonicalSignatures(self.urls)
                              \cap CanonicalSignatures(other.urls) # {}]
              ELSE [raised |-> None,
                    eq |-> SignaturesOf(self.urls) \cap SignaturesOf(other.urls) # {}]

\* Article.__eq__
article_eq(self, other) ==
    IF self.id = other.id THEN [raised |-> None, eq |-> TRUE]
    ELSE IF EqRaises(self.urls) \/ EqRaises(other.urls)
         THEN [raised |-> "Exception", eq |-> FALSE]
         ELSE [raised |-> None, eq |-> EqSide(self.urls) \cap EqSide(other.urls) # {}]

\* the url loop of Article.update: a url of other is appended unless its
\* signature is one of self's or of a url appended before it
RECURSIVE AppendMissing(_, _, _)
AppendMissing(urls, existing_signatures, others) ==
    IF others = <<>> THEN urls
    ELSE LET sig == signature(Head(others)).sign IN
         IF sig \notin existing_signatures
         THEN AppendMissing(Append(urls, Head(others)),
                            existing_signatures \cup {sig}, Tail(others))
         ELSE AppendMissing(urls, existing_signatures, Tail(others))

MinOf(a, b) == IF a <= b THEN a ELSE b

\* Article.update: dates, then urls (meta and text are not modelled)
article_update(self, other) ==
    LET c1 == IF self.created_at = NoDate THEN other.created_at ELSE self.created_at
        u1 == IF self.updated_at = NoDate THEN other.updated_at ELSE self.updated_at
        c2 == IF other.created_at # NoDate THEN MinOf(c1, other.created_at) ELSE c1
        u2 == IF other.updated_at # NoDate THEN Max(u1, other.updated_at) ELSE u1 IN
    IF Raises(self.urls) \/ Raises(other.urls)
    THEN [raised |-> "Exception",
          article |-> [self EXCEPT !.created_at = c2, !.updated_at = u2]]
    ELSE [raised |-> None,
          article |-> [self EXCEPT !.created_at = c2, !.updated_at = u2,
                          !.urls = AppendMissing(self.urls, SignaturesOf(self.urls),
                                                 other.urls)]]

\* has_handled_url: any(url.signature for url in article.urls)
RECURSIVE AnySigned(_)
AnySigned(urls) ==
    IF urls = <<>> THEN [raised |-> None, handled |-> FALSE]
    ELSE LET g == signature(Head(urls)) IN
         IF g.raised # None THEN [raised |-> g.raised, handled |-> FALSE]
         ELSE IF g.sign # "" THEN [raised |-> None, handled |-> TRUE]
         ELSE AnySigned(Tail(urls))

has_handled_url(article) == AnySigned(article.urls)



\* sorted(v, key=lambda x: len(x.labels), reverse=True): stable
RECURSIVE InsertByLabels(_, _)
InsertByLabels(sorted, url) ==
    IF sorted = <<>> THEN <<url>>
    ELSE IF Cardinality(Head(sorted).labels) >= Cardinality(url.labels)
         THEN <<Head(sorted)>> \o InsertByLabels(Tail(sorted), url)
         ELSE <<url>> \o sorted

RECURSIVE SortByLabels(_)
SortByLabels(v) ==
    IF v = <<>> THEN <<>>
    ELSE InsertByLabels(SortByLabels(SubSeq(v, 1, Len(v) - 1)), v[Len(v)])

\* variant: the url seen last for a signature replaces the one kept
RECURSIVE UniqueBySign_last(_, _)
UniqueBySign_last(urls, seen_signs) ==
    IF urls = <<>> THEN <<>>
    ELSE IF \E i \in 2..Len(urls) : urls[i].sign = Head(urls).sign
         THEN UniqueBySign_last(Tail(urls), seen_signs)
         ELSE <<Head(urls)>> \o UniqueBySign_last(Tail(urls), seen_signs)

\* the loop of check_urls_unique: the first url of each signature is kept
RECURSIVE UniqueBySign(_, _)
UniqueBySign(urls, seen_signs) ==
    IF urls = <<>> THEN <<>>
    ELSE IF Head(urls).sign \notin seen_signs
         THEN <<Head(urls)>> \o UniqueBySign(Tail(urls), seen_signs \cup {Head(urls).sign})
         ELSE UniqueBySign(Tail(urls), seen_signs)

\* RahtiEntry.check_urls_unique
check_urls_unique(v) == UniqueBySign(SortByLabels(v), {})

\* the urls of the entry convert_for_rahti builds: one RahtiUrl for each url
\* of the article with a signature
RECURSIVE SignedUrls(_)
SignedUrls(urls) ==
    IF urls = <<>> THEN <<>>
    ELSE (IF signature(Head(urls)).sign # ""
          THEN <<[sign |-> signature(Head(urls)).sign, labels |-> Head(urls).labels]>>
          ELSE <<>>)
            \o SignedUrls(Tail(urls))

\* convert_for_rahti: the RahtiEntry is validated when it is constructed
convert_for_rahti(source, article, title) ==
    IF Raises(article.urls) THEN [raised |-> "Exception", entry |-> NoEntry]
    ELSE [raised |-> None,
          entry |-> [updated |-> Max(OrMin(article.updated_at), OrMin(article.created_at)),
                     urls |-> check_urls_unique(SignedUrls(article.urls)),
                     title |-> title.title,
                     clickbaitiness |-> title.original_title_clickbaitiness,
                     labels |-> article.labels,
                     outlet |-> source.name]]



\* the urls an article is made of
ArtUrls ==
    { Url("a", {Canonical}), Url("a?ref", {}), Url("b", {Alternate}),
      Url("x", {Canonical}), Url("y", {}), Url("bad", {}) }

ArtArticle(id, urls, created_at, updated_at) ==
    [id |-> id, urls |-> urls, created_at |-> created_at, updated_at |-> updated_at,
     labels |-> {}]

ArtUrlLists == UNION {[1..n -> ArtUrls] : n \in 0..MaxArtUrls}

\* a result: the exception raised, or the signature, truth value, urls and
\* dates the call returns or leaves in self
ArtRes(raised, sign, flag, urls, created_at, updated_at) ==
    [raised |-> raised, sign |-> sign, flag |-> flag, urls |-> urls,
     created_at |-> created_at, updated_at |-> updated_at]

NoArt == ArtArticle(0, <<>>, NoDate, NoDate)

ArtCall(op, self, other, res) == [pc |-> "done", op |-> op, self |-> self, other |-> other, res |-> res]

InitArt ==
    /\ RestOff
    /\ art = [pc |-> "init", op |-> "init", self |-> NoArt, other |-> NoArt,
              res |-> ArtRes(None, None, FALSE, <<>>, NoDate, NoDate)]
    /\ rahti = [updated |-> MinDate, entries |-> <<>>]
    /\ map = EmptyMap
    /\ call = CleanerIdle
    /\ prune = PruneIdle
    /\ registry = RegistryIdle
    /\ extract = Off
    /\ pool = Off
    /\ run = Off
    /\ store = Off
    /\ valid = Off

\* url.signature
CallSignature ==
    /\ art.pc = "init"
    /\ \E url \in ArtUrls :
          LET g == signature(url) IN
          art' = ArtCall("signature", ArtArticle(1, <<url>>, NoDate, NoDate), NoArt,
                         ArtRes(g.raised, g.sign, FALSE, <<>>, NoDate, NoDate))
    /\ UNCHANGED notArt

\* has_handled_url(article), the test of remove_unhandled
CallHasHandledUrl ==
    /\ art.pc = "init"
    /\ \E urls \in ArtUrlLists :
          LET self == ArtArticle(1, urls, NoDate, NoDate)
              h == has_handled_url(self) IN
          art' = ArtCall("has_handled_url", self, NoArt,
                         ArtRes(h.raised, None, h.handled, <<>>, NoDate, NoDate))
    /\ UNCHANGED notArt

\* self == other, for two articles or for an article and itself
CallEq ==
    /\ art.pc = "init"
    /\ \E urls \in ArtUrlLists, others \in ArtUrlLists, id \in {1, 2} :
          LET self == ArtArticle(1, urls, NoDate, NoDate)
              other == IF id = 1 THEN self ELSE ArtArticle(2, others, NoDate, NoDate)
              e == article_eq(self, other) IN
          art' = ArtCall("__eq__", self, other,
                         ArtRes(e.raised, None, e.eq, <<>>, NoDate, NoDate))
    /\ UNCHANGED notArt

\* self.update(other)
CallUpdate ==
    /\ art.pc = "init"
    /\ \E urls \in ArtUrlLists, others \in ArtUrlLists,
          at \in {<<NoDate, NoDate>>, <<1, 2>>}, other_at \in {<<NoDate, NoDate>>, <<2, 1>>} :
          LET self == ArtArticle(1, urls, at[1], at[2])
              other == ArtArticle(2, others, other_at[1], other_at[2])
              u == article_update(self, other) IN
          art' = ArtCall("update", self, other,
                         ArtRes(u.raised, None, FALSE, u.article.urls,
                                u.article.created_at, u.article.updated_at))
    /\ UNCHANGED notArt

ArtSource == NewsSource("yle", TRUE, NoLimit, NoLimit)
ArtTitle == [title |-> "New", original_title_clickbaitiness |-> "Slightly Clickbaity"]

\* convert_for_rahti(source, article, title)
CallConvertForRahti ==
    /\ art.pc = "init"
    /\ \E urls \in ArtUrlLists, at \in {<<NoDate, NoDate>>, <<1, 2>>} :
          LET self == ArtArticle(1, urls, at[1], at[2])
              c == convert_for_rahti(ArtSource, self, ArtTitle) IN
          art' = ArtCall("convert_for_rahti", self, NoArt,
                         ArtRes(c.raised, None, FALSE, c.entry.urls,
                                NoDate, c.entry.updated))
    /\ UNCHANGED notArt

\* the urls of an article as find_by_article reads them
WithSignatures(urls) ==
    [i \in 1..Len(urls) |-> [signature |-> signature(urls[i]).sign,
                             labels |-> urls[i].labels]]

\* find_by_article(article) on a cleaner whose dataset holds the entry
\* convert_for_rahti made of the article other
CallFindStored ==
    /\ art.pc = "init"
    /\ \E urls \in ArtUrlLists, others \in ArtUrlLists :
          /\ ~Raises(urls) /\ ~Raises(others)
          /\ LET self == ArtArticle(1, urls, NoDate, NoDate)
                 other == ArtArticle(2, others, 1, 1)
                 entries == <<convert_for_rahti(ArtSource, other, ArtTitle).entry>>
                 found == find_by_article(BuildMap(entries),
                                          [updated |-> 1, entries |-> entries],
                                          [self EXCEPT !.urls = WithSignatures(urls)]) IN
             art' = ArtCall("find_by_article", self, other,
                            ArtRes(None, None, found # NoEntry, found.urls, NoDate, NoDate))
    /\ UNCHANGED notArt

NextArt ==
    \/ CallSignature \/ CallHasHandledUrl \/ CallEq \/ CallUpdate
    \/ CallConvertForRahti \/ CallFindStored

SpecArt == InitArt /\ [][NextArt]_vars

\* Suola gives the href no signature: it raises, or returns none
HashFails(url) == Suola(url.href).raised # None \/ Suola(url.href).sign = None

Signed(urls) == {i \in 1..Len(urls) : ~HashFails(urls[i])}

\* C17: computing a signature never raises; when normalization or hashing of
\* the url fails the signature is the empty string, and an article that holds
\* such a url beside a url with a signature is still a handled article.
C17_SignatureNeverRaises ==
    /\ art.op = "signature" =>
          /\ art.res.raised = None
          /\ HashFails(art.self.urls[1]) => art.res.sign = ""
    /\ art.op = "has_handled_url" =>
          /\ art.res.raised = None
          /\ Signed(art.self.urls) # {} => art.res.flag

\* the signatures with which the urls of two articles can match
RealSignatures(article) ==
    {Suola(article.urls[i].href).sign : i \in Signed(article.urls)}

NoneFails(article) == \A i \in 1..Len(article.urls) : Suola(article.urls[i].href).raised = None

\* C18: a url with an empty signature takes no part in matching: articles
\* without a common non-empty signature are not equal, update appends every
\* unsignable url of the other article that self does not hold already,
\* find_by_article matches no entry through an empty signature, and
\* convert_for_rahti writes no empty signature.
C18_EmptySignatureNeverMatches ==
    (art.pc = "done" /\ NoneFails(art.self) /\ NoneFails(art.other)) =>
        /\ (art.op = "__eq__" /\ art.self.id # art.other.id
              /\ RealSignatures(art.self) \cap RealSignatures(art.other) = {})
           => ~art.res.flag
        /\ art.op = "update" =>
              \A i \in 1..Len(art.other.urls) :
                 (/\ HashFails(art.other.urls[i])
                  /\ \A j \in 1..Len(art.self.urls) :
                        art.self.urls[j].href # art.other.urls[i].href)
                 => \E k \in 1..Len(art.res.urls) :
                       art.res.urls[k].href = art.other.urls[i].href
        /\ (art.op = "find_by_article"
              /\ RealSignatures(art.self) \cap RealSignatures(art.other) = {})
           => ~art.res.flag
        /\ art.op = "convert_for_rahti" =>
              \A k \in 1..Len(art.res.urls) : art.res.urls[k].sign # ""



MaxRawUrls == 3

\* the labels of a url, as the JSON array they are written as
LabelOrder == <<Canonical, Alternate>>

RECURSIVE LabelArray(_, _)
LabelArray(labels, i) ==
    IF i > Len(LabelOrder) THEN <<>>
    ELSE (IF LabelOrder[i] \in labels THEN <<LabelOrder[i]>> ELSE <<>>)
            \o LabelArray(labels, i + 1)

\* a datetime as an ISO 8601 string
IsoFormat(t) == <<"iso8601", t>>
FromIsoFormat(text) == text[2]

\* model_dump_json of a RahtiUrl, a RahtiEntry, a RahtiData: the fields in
\* the order of their declaration
DumpUrl(url) == <<"sign", url.sign, "labels", LabelArray(url.labels, 1)>>

DumpEntry(entry) ==
    << "updated", IsoFormat(entry.updated),
       "urls", [i \in 1..Len(entry.urls) |-> DumpUrl(entry.urls[i])],
       "title", entry.title, "clickbaitiness", entry.clickbaitiness,
       "labels", LabelArray(entry.labels, 1), "outlet", entry.outlet >>

model_dump_json(data) ==
    << "status", data.status, "schema_version", data.schema_version,
       "updated", IsoFormat(data.updated),
       "entries", [i \in 1..Len(data.entries) |-> DumpEntry(data.entries[i])] >>

ParseLabels(array) == {array[i] : i \in 1..Len(array)}

ParseUrl(json) == [sign |-> json[2], labels |-> ParseLabels(json[4])]

\* RahtiEntry(...): the validator of urls runs whenever an entry is built
RahtiEntry(updated, urls, title, clickbaitiness, labels, outlet) ==
    [updated |-> updated, urls |-> check_urls_unique(urls), title |-> title,
     clickbaitiness |-> clickbaitiness, labels |-> labels, outlet |-> outlet]

ParseEntry(json) ==
    RahtiEntry(FromIsoFormat(json[2]), [i \in 1..Len(json[4]) |-> ParseUrl(json[4][i])],
               json[6], json[8], ParseLabels(json[10]), json[12])

RahtiData(updated, entries) ==
    [status |-> "ok", schema_version |-> "0.1.0", updated |-> updated,
     entries |-> entries]

\* RahtiData.model_validate_json
model_validate_json(json) ==
    RahtiData(FromIsoFormat(json[6]), [i \in 1..Len(json[8]) |-> ParseEntry(json[8][i])])

\* the url records an entry is built from
RawUrls ==
    {[sign |-> g, labels |-> l] :
        g \in {"abc", "def"}, l \in {{}, {Canonical}, {Canonical, Alternate}}}

NoJson == <<>>
NoData == RahtiData(MinDate, <<>>)

InitValid ==
    /\ RestOff
    /\ \E n \in 0..MaxRawUrls :
          \E v \in [1..n -> RawUrls] :
             valid = [pc |-> "raw", v |-> v, data |-> NoData, json |-> NoJson,
                      back |-> NoData, again |-> NoJson]
    /\ rahti = [updated |-> MinDate, entries |-> <<>>]
    /\ map = EmptyMap
    /\ call = CleanerIdle
    /\ prune = PruneIdle
    /\ registry = RegistryIdle
    /\ extract = Off
    /\ pool = Off
    /\ run = Off
    /\ store = Off
    /\ art = Off

\* a dataset of one entry built from the url records
Construct ==
    /\ valid.pc = "raw"
    /\ valid' = [valid EXCEPT !.pc = "built",
                    !.data = RahtiData(1, <<RahtiEntry(1, valid.v, "New",
                                                       "Slightly Clickbaity",
                                                       {}, "yle")>>)]
    /\ UNCHANGED notValid

\* data.model_dump_json(), as push writes it
Serialize ==
    /\ valid.pc = "built"
    /\ valid' = [valid EXCEPT !.pc = "dumped", !.json = model_dump_json(valid.data)]
    /\ UNCHANGED notValid

\* RahtiData.model_validate_json(...), as pull reads it
Deserialize ==
    /\ valid.pc = "dumped"
    /\ valid' = [valid EXCEPT !.pc = "parsed", !.back = model_validate_json(valid.json)]
    /\ UNCHANGED notValid

Reserialize ==
    /\ valid.pc = "parsed"
    /\ valid' = [valid EXCEPT !.pc = "done", !.again = model_dump_json(valid.back)]
    /\ UNCHANGED notValid

NextValid == Construct \/ Serialize \/ Deserialize \/ Reserialize

SpecValid == InitValid /\ [][NextValid]_vars

Built == valid.pc \in {"built", "dumped", "parsed", "done"}

StoredUrls == valid.data.entries[1].urls

\* C20: the urls of a validated entry have pairwise distinct signatures; for
\* each signature of the input the record kept is one with the most labels
\* among the input's records of that signature; validating again changes
\* nothing; and serializing, deserializing and serializing again gives the
\* first serialization, url order included.
C20_ValidationDedupesAndRoundTrips ==
    /\ Built =>
          /\ \A i, j \in 1..Len(StoredUrls) :
                i # j => StoredUrls[i].sign # StoredUrls[j].sign
          /\ \A k \in 1..Len(valid.v) :
                \E i \in 1..Len(StoredUrls) :
                   /\ StoredUrls[i].sign = valid.v[k].sign
                   /\ Cardinality(StoredUrls[i].labels) >= Cardinality(valid.v[k].labels)
          /\ \A i \in 1..Len(StoredUrls) :
                \E k \in 1..Len(valid.v) : valid.v[k] = StoredUrls[i]
          /\ check_urls_unique(StoredUrls) = StoredUrls
    /\ valid.pc = "done" =>
          /\ valid.again = valid.json
          /\ \A i \in 1..Len(StoredUrls) :
                valid.again[8][1][4][i][2] = StoredUrls[i].sign

\* two records of one signature, the one with fewer labels first, and a
\* record of another signature: the round trip has been made
C20_Witness ==
    /\ valid.pc = "done"
    /\ Len(valid.v) = 3
    /\ valid.v[1] = [sign |-> "abc", labels |-> {}]
    /\ valid.v[2] = [sign |-> "def", labels |-> {}]
    /\ valid.v[3] = [sign |-> "abc", labels |-> {Canonical}]
    /\ Len(StoredUrls) = 2
    /\ StoredUrls[1] = [sign |-> "abc", labels |-> {Canonical}]


\* ------------------------------------------- the thread pools of the phases
MaxJobs == 3
MaxWorkerThreads == 2

Phases == {"fetch_latest", "fetch_full_articles", "generate_titles"}

\* the jobs 1..submitted have been handed to the executor, the results of the
\* jobs 1..collected have been taken with future.result()
InFlight(w) == (1..w.submitted) \ w.finished
Executing(w) == w.started \ w.finished

\* the main thread may call executor.submit for the next job:
\* fetch_latest and generate_titles submit every job before they wait for the
\* first result; fetch_full_articles waits for the result of a job right
\* after it has submitted it
may_submit(w) ==
    /\ w.submitted < w.n
    /\ IF w.phase = "fetch_full_articles"
       THEN w.collected = w.submitted
       ELSE w.collected = 0

\* the main thread may take the next result: future.result() blocks until the
\* job has finished
may_collect(w) ==
    /\ w.collected < w.submitted
    /\ (w.collected + 1) \in w.finished
    /\ w.phase # "fetch_full_articles" => w.submitted = w.n

\* ThreadPoolExecutor: a queued job starts, in the order of submission, when
\* fewer than max_workers jobs are being executed
may_start(w, k) ==
    /\ k \in 1..w.submitted
    /\ k \notin w.started
    /\ \A j \in 1..(k - 1) : j \in w.started
    /\ Cardinality(Executing(w)) < w.max_workers

InitWorkers ==
    /\ \E phase \in Phases, n \in 0..MaxJobs, max_workers \in 1..MaxWorkerThreads :
          workers = [pc |-> "running", phase |-> phase, n |-> n,
                     max_workers |-> max_workers, submitted |-> 0,
                     started |-> {}, finished |-> {}, collected |-> 0]
    /\ rahti = [updated |-> MinDate, entries |-> <<>>]
    /\ map = EmptyMap
    /\ call = CleanerIdle
    /\ prune = PruneIdle
    /\ registry = RegistryIdle
    /\ extract = Off /\ pool = Off /\ run = Off /\ store = Off /\ art = Off
    /\ valid = Off /\ threads = Off /\ session = Off /\ fetch = Off

notWorkers ==
    <<rahti, map, call, prune, registry, extract, pool, run, store, art, valid,
      threads, session, fetch>>

ExecutorSubmit ==
    /\ workers.pc = "running"
    /\ may_submit(workers)
    /\ workers' = [workers EXCEPT !.submitted = @ + 1]
    /\ UNCHANGED notWorkers

WorkerRun ==
    /\ workers.pc = "running"
    /\ \E k \in 1..workers.n :
          /\ may_start(workers, k)
          /\ workers' = [workers EXCEPT !.started = @ \cup {k}]
    /\ UNCHANGED notWorkers

WorkerDone ==
    /\ workers.pc = "running"
    /\ \E k \in Executing(workers) :
          workers' = [workers EXCEPT !.finished = @ \cup {k}]
    /\ UNCHANGED notWorkers

FutureResult ==
    /\ workers.pc = "running"
    /\ may_collect(workers)
    /\ workers' = [workers EXCEPT !.collected = @ + 1]
    /\ UNCHANGED notWorkers

PoolReturn ==
    /\ workers.pc = "running"
    /\ workers.collected = workers.n
    /\ workers' = [workers EXCEPT !.pc = "returned"]
    /\ UNCHANGED notWorkers

NextWorkers ==
    \/ ExecutorSubmit \/ WorkerRun \/ WorkerDone \/ FutureResult \/ PoolReturn

SpecWorkers == InitWorkers /\ [][NextWorkers]_vars

\* C21: with MAX_WORKERS >= 2, while one job of a phase is in flight and a job
\* is still to be dispatched, the phase can dispatch it (so two invocations
\* can be in flight at the same time); in the per-article fetch phase as in
\* the discovery and title-generation phases.
C21_FetchPhaseIsParallel ==
    (/\ workers.pc = "running"
     /\ workers.max_workers >= 2
     /\ workers.n >= 2
     /\ InFlight(workers) # {}
     /\ workers.submitted < workers.n) => ENABLED ExecutorSubmit

\* the same statement for the two phases that submit all their jobs first
BatchPhasesAreParallel ==
    workers.pc # "off" /\ workers.phase # "fetch_full_articles" =>
        C21_FetchPhaseIsParallel


\* --------------------------------------- threads calling upsert on one cleaner
Threads == {1, 2}

\* the signature the two entries share; the dataset does not store it
Shared == "ghi"

\* @wrapt.synchronized on a method: the call proceeds when the instance's
\* reentrant lock is free or held by the calling thread
\* variant: the methods are not synchronized
synchronized_unlocked(lock, t) == TRUE

synchronized(lock, t) == lock \in {0, t}

\* datasets without the shared signature, no signature in two entries
ThreadDatasets == {
    <<>>,
    <<MkEntry(1, <<RahtiUrl("abc")>>, StoredMeta)>>,
    <<MkEntry(1, <<RahtiUrl("abc"), RahtiUrl("def")>>, StoredMeta)>>,
    <<MkEntry(1, <<RahtiUrl("abc")>>, StoredMeta),
      MkEntry(1, <<RahtiUrl("def")>>, StoredMeta)>> }

\* url lists of at most two urls that carry the shared signature
SharedUrlLists == {u \in UrlLists : Len(u) <= 2 /\ \E i \in 1..Len(u) : u[i].sign = Shared}

InitThreads ==
    /\ \E es \in ThreadDatasets :
          /\ rahti = [updated |-> 1, entries |-> es]
          /\ map = BuildMap(es)
    /\ \E u \in [Threads -> SharedUrlLists] :
          threads = [pc |-> "on", lock |-> 0, inserts |-> 0, replaces |-> 0,
                     old_rahti |-> rahti, old_map |-> map,
                     at |-> [t \in Threads |->
                               [pc |-> "call", existing |-> NotFound,
                                entry |-> MkEntry(t, u[t], PlainMeta)]]]
    /\ call = CleanerIdle
    /\ prune = PruneIdle
    /\ registry = RegistryIdle
    /\ extract = Off /\ pool = Off /\ run = Off /\ store = Off /\ art = Off
    /\ valid = Off /\ workers = Off /\ session = Off /\ fetch = Off

notThreads ==
    <<call, prune, registry, extract, pool, run, store, art, valid, workers,
      session, fetch>>

\* upsert is entered: the lock is taken
UpsertEnter(t) ==
    /\ threads.at[t].pc = "call"
    /\ synchronized(threads.lock, t)
    /\ threads' = [threads EXCEPT !.lock = t, !.at[t].pc = "find"]
    /\ UNCHANGED <<rahti, map>>
    /\ UNCHANGED notThreads

\* existing = self.find(entry)
UpsertFind(t) ==
    /\ threads.at[t].pc = "find"
    /\ LET existing == find(map, threads.at[t].entry) IN
       threads' = [threads EXCEPT
                      !.at[t].existing = existing,
                      !.at[t].pc = IF existing # NotFound THEN "replace" ELSE "insert"]
    /\ UNCHANGED <<rahti, map>>
    /\ UNCHANGED notThreads

\* self.replace(entry): the lock is reentrant for the thread that holds it
UpsertReplace(t) ==
    /\ threads.at[t].pc = "replace"
    /\ synchronized(threads.lock, t)
    /\ LET res == replace(rahti, map, threads.at[t].entry) IN
       /\ rahti' = res.rahti
       /\ map' = res.map
       /\ threads' = [threads EXCEPT !.at[t].pc = "exit", !.replaces = @ + 1]
    /\ UNCHANGED notThreads

\* self.insert(entry)
UpsertInsert(t) ==
    /\ threads.at[t].pc = "insert"
    /\ synchronized(threads.lock, t)
    /\ LET res == insert(rahti, map, threads.at[t].entry) IN
       /\ rahti' = res.rahti
       /\ map' = res.map
       /\ threads' = [threads EXCEPT !.at[t].pc = "exit", !.inserts = @ + 1]
    /\ UNCHANGED notThreads

\* upsert returns: the lock is released
UpsertExit(t) ==
    /\ threads.at[t].pc = "exit"
    /\ threads' = [threads EXCEPT !.lock = 0, !.at[t].pc = "done"]
    /\ UNCHANGED <<rahti, map>>
    /\ UNCHANGED notThreads

NextThreads ==
    \E t \in Threads :
       \/ UpsertEnter(t) \/ UpsertFind(t) \/ UpsertReplace(t)
       \/ UpsertInsert(t) \/ UpsertExit(t)

SpecThreads == InitThreads /\ [][NextThreads]_vars

BothDone == threads.pc # "off" /\ \A t \in Threads : threads.at[t].pc = "done"

\* every key of the map points into the list, at an entry that carries it
MapSound(m, es) ==
    \A s \in DOMAIN m :
       /\ m[s] \in 0..(Len(es) - 1)
       /\ s \in SignsOf(es[m[s] + 1])

\* the cleaner after upsert(first) and then upsert(second), one after the other
InOrder(first, second) ==
    LET a == upsert(threads.old_rahti, threads.old_map, threads.at[first].entry)
        b == upsert(a.rahti, a.map, threads.at[second].entry)
    IN <<b.rahti, b.map>>

\* the two upserts never overlap: the outcome is that of one of the two orders
UpsertsAreSerialized ==
    BothDone => <<rahti, map>> \in {InOrder(1, 2), InOrder(2, 1)}

\* C22: two concurrent upserts of entries that share a signature the dataset
\* does not store are atomic: whatever the interleaving, they end with exactly
\* one entry carrying that signature (never two inserts) and with the map
\* consistent with the entry list.
C22_ConcurrentUpsertsAtomic ==
    BothDone =>
        /\ Cardinality(Holders(rahti.entries, Shared)) = 1
        /\ threads.inserts <= 1
        /\ Shared \in DOMAIN map
        /\ MapSound(map, rahti.entries)


\* ------------------------------------------------------------ fetch_source
MaxDiscovered == 3

\* datetime.now(pytz.UTC) at the time of the call, in days
FetchNow == 3

Undated(article) == article.updated_at = NoDate /\ article.created_at = NoDate

\* key=lambda a: a.updated_at or a.created_at or 0
DateKey(a) ==
    IF a.updated_at # NoDate THEN a.updated_at
    ELSE IF a.created_at # NoDate THEN a.created_at ELSE 0

\* list.sort compares the keys of a list of two or more articles; a datetime
\* and the int 0 do not compare: TypeError
SortRaises(articles) ==
    /\ \E i \in 1..Len(articles) : Undated(articles[i])
    /\ \E i \in 1..Len(articles) : ~Undated(articles[i])

\* articles.sort(key=..., reverse=True): stable, newest first
RECURSIVE InsertByDate(_, _)
InsertByDate(sorted, a) ==
    IF sorted = <<>> THEN <<a>>
    ELSE IF DateKey(Head(sorted)) >= DateKey(a)
         THEN <<Head(sorted)>> \o InsertByDate(Tail(sorted), a)
         ELSE <<a>> \o sorted

RECURSIVE SortByDate(_, _)
SortByDate(sorted, articles) ==
    IF articles = <<>> THEN sorted
    ELSE SortByDate(InsertByDate(sorted, Head(articles)), Tail(articles))

\* list(remove_unhandled(articles))
remove_unhandled(articles) ==
    SelectSeq(articles, LAMBDA a : has_handled_url(a).handled)

\* article.updated_at or article.created_at or now
DateOrNow(article, now) ==
    IF article.updated_at # NoDate THEN article.updated_at
    ELSE IF article.created_at # NoDate THEN article.created_at ELSE now

\* the comparisons of the max-age filter: the article and the date compared
\* with cutoff_date
Compared(articles, now) ==
    [i \in 1..Len(articles) |->
        [id |-> articles[i].id, date |-> DateOrNow(articles[i], now)]]

\* fetch_source, with the list discover_articles yields and the clock's time
fetch_source(source, discovered, now) ==
    IF SortRaises(discovered)
    THEN [raised |-> "TypeError", articles |-> <<>>, compared |-> <<>>]
    ELSE LET sorted == SortByDate(<<>>, discovered)
             handled == remove_unhandled(sorted)
             cutoff_date == now - source.max_age_days
             recent == IF source.max_age_days # NoLimit
                       THEN SelectSeq(handled,
                                LAMBDA a : DateOrNow(a, now) >= cutoff_date)
                       ELSE handled
             limited == IF source.max_num_articles # NoLimit
                           /\ Len(recent) > source.max_num_articles
                        THEN SliceTo(recent, source.max_num_articles)
                        ELSE recent
         IN [raised |-> None, articles |-> limited,
             compared |-> IF source.max_age_days # NoLimit
                          THEN Compared(handled, now) ELSE <<>>]

\* the article as find_by_article reads it: the signatures of its urls
Stub(article) ==
    [urls |-> [i \in 1..Len(article.urls) |->
                 [signature |-> signature(article.urls[i]).sign, labels |-> {}]],
     updated_at |-> article.updated_at, created_at |-> article.created_at]

\* the articles a discoverer yields: with a signed or an unsigned url, with
\* updated_at, created_at, both or neither
Yielded(id, href, updated_at, created_at) ==
    ArtArticle(id, <<Url(href, {})>>, created_at, updated_at)

InitFetch ==
    /\ \E n \in 0..MaxDiscovered :
          \E href \in [1..n -> {"a", "x"}], ua \in [1..n -> {NoDate, 1, FetchNow}],
             ca \in [1..n -> {NoDate, 2}],
             max_age_days \in {NoLimit, 1}, max_num_articles \in {NoLimit, 1, 2} :
                fetch = [pc |-> "call",
                         source |-> NewsSource("yle", TRUE, max_age_days, max_num_articles),
                         now |-> FetchNow,
                         discovered |-> [k \in 1..n |->
                              Yielded(k, href[k], ua[k], ca[k])],
                         raised |-> None, articles |-> <<>>, compared |-> <<>>,
                         asked |-> 0, needs |-> FALSE]
    \* the dataset holds an entry for the signed url, updated at the clock's time
    /\ rahti = [updated |-> FetchNow,
                entries |-> <<MkEntry(FetchNow, <<RahtiUrl("abc")>>, StoredMeta)>>]
    /\ map = BuildMap(rahti.entries)
    /\ call = CleanerIdle
    /\ prune = PruneIdle
    /\ registry = RegistryIdle
    /\ extract = Off /\ pool = Off /\ run = Off /\ store = Off /\ art = Off
    /\ valid = Off /\ workers = Off /\ threads = Off /\ session = Off

notFetch ==
    <<rahti, map, call, prune, registry, extract, pool, run, store, art, valid,
      workers, threads, session>>

FetchSource ==
    /\ fetch.pc = "call"
    /\ LET res == fetch_source(fetch.source, fetch.discovered, fetch.now) IN
       fetch' = [fetch EXCEPT !.pc = IF res.raised # None THEN "raised" ELSE "fetched",
                              !.raised = res.raised, !.articles = res.articles,
                              !.compared = res.compared]
    /\ UNCHANGED notFetch

\* needs_updating on one of the articles fetch_source returned
FetchNeedsUpdating ==
    /\ fetch.pc = "fetched"
    /\ \E i \in 1..Len(fetch.articles) :
          fetch' = [fetch EXCEPT
                       !.pc = "asked", !.asked = fetch.articles[i].id,
                       !.needs = needs_updating(rahti, map, Stub(fetch.articles[i]))]
    /\ UNCHANGED notFetch

NextFetch == FetchSource \/ FetchNeedsUpdating

SpecFetch == InitFetch /\ [][NextFetch]_vars

FetchArticle(id) == fetch.discovered[id]

\* C23: an article with neither updated_at nor created_at is never given the
\* current time as its date in a comparison: not in the max-age filter of
\* fetch_source, and needs_updating answers true for it (unknown age) even
\* when the stored entry is as recent as the clock.
C23_MissingDateNeverNow ==
    /\ fetch.pc \in {"fetched", "asked"} =>
          \A i \in 1..Len(fetch.compared) :
             Undated(FetchArticle(fetch.compared[i].id)) =>
                 fetch.compared[i].date # fetch.now
    /\ (fetch.pc = "asked" /\ Undated(FetchArticle(fetch.asked))) => fetch.needs

\* the articles are in descending order of updated_at, else created_at
NewestFirst(articles) ==
    \A i, j \in 1..Len(articles) : i < j => DateKey(articles[i]) >= DateKey(articles[j])

\* C26: fetch_source returns normally for every list the discoverer yields,
\* a list that mixes dated and undated articles included; the result is
\* ordered newest first and holds at most max_num_articles articles.
C26_FetchSourceReturns ==
    fetch.pc \in {"raised", "fetched", "asked"} =>
        /\ fetch.pc # "raised"
        /\ fetch.raised = None
        /\ NewestFirst(fetch.articles)
        /\ fetch.source.max_num_articles # NoLimit =>
              Len(fetch.articles) <= fetch.source.max_num_articles

\* what holds of the lists that do not mix dated and undated articles
FetchSourceOnUnmixed ==
    ~SortRaises(fetch.discovered) => C26_FetchSourceReturns


\* ------------------------------------------------------ equality of articles
HasCanonical(article) ==
    \E i \in 1..Len(article.urls) : Canonical \in article.urls[i].labels

\* the signature of the url as __eq__ reads it: empty when Suola gives none
SignatureAt(article, i) ==
    IF Suola(article.urls[i].href).sign = None THEN ""
    ELSE Suola(article.urls[i].href).sign

\* the urls the claimed rule compares: the canonical ones of both articles
\* when either article has a canonical url, all urls otherwise
ClaimedUrls(article, peer) ==
    {i \in 1..Len(article.urls) :
        (HasCanonical(article) \/ HasCanonical(peer)) =>
            Canonical \in article.urls[i].labels}

\* the urls each side compares on its own account: its canonical urls when
\* it has one, all its urls otherwise
OwnUrls(article) ==
    {i \in 1..Len(article.urls) :
        HasCanonical(article) => Canonical \in article.urls[i].labels}

\* a distinct pair has been compared, and every url of both has a signature
ComparedSigned ==
    /\ art.pc = "done" /\ art.op = "__eq__"
    /\ art.self.id # art.other.id
    /\ \A i \in 1..Len(art.self.urls) : ~HashFails(art.self.urls[i])
    /\ \A i \in 1..Len(art.other.urls) : ~HashFails(art.other.urls[i])

MaxCalls == 2

\* the url lists of the datasets a cleaner is constructed on: without a
\* signature in two entries, and (the last one) with
SessionDatasets == {
    <<>>,
    << <<"abc">> >>,
    << <<"abc", "def">> >>,
    << <<"abc">>, <<"def">> >>,
    << <<"abc">>, <<"abc", "def">> >> }

\* the url lists of the entries handed to insert, replace and upsert
SessionUrlLists == {
    <<>>, <<"abc">>, <<"def">>, <<"abc", "def">>, <<"def", "abc">>, <<"ghi", "abc">> }

SessionEntries ==
    {MkEntry(t, [i \in 1..Len(u) |-> RahtiUrl(u[i])], PlainMeta) :
        t \in {1, MaxTime}, u \in SessionUrlLists}

\* the urls of the articles that are converted: signed and unsigned, with
\* and without labels
SessionUrls ==
    { Url("a", {}), Url("a", {Canonical}), Url("b", {}), Url("b", {Alternate}),
      Url("x", {}) }

\* (updated_at, created_at) of the articles
SessionDates == {<<NoDate, NoDate>>, <<1, NoDate>>, <<NoDate, MaxTime>>, <<MaxTime, 1>>}

InitSession ==
    /\ \E d \in SessionDatasets :
          \E at \in [1..Len(d) -> {1, MaxTime}] :
             LET es == [k \in 1..Len(d) |->
                          MkEntry(at[k], [i \in 1..Len(d[k]) |-> RahtiUrl(d[k][i])],
                                  StoredMeta)]
             IN /\ rahti = [updated |-> 1, entries |-> es]
                /\ map = BuildMap(es)
                /\ session = [pc |-> "on", n |-> 0, clean |-> NoSharedSign(es),
                              only_upserts |-> TRUE, article |-> NoArt,
                              raised |-> None, needs |-> FALSE]
    /\ call = [op |-> "init", entry |-> NoEntry, article |-> NoArticle,
               idx |-> NotFound, ret |-> NoEntry, flag |-> FALSE,
               old_rahti |-> rahti, old_map |-> map]
    /\ prune = PruneIdle
    /\ registry = RegistryIdle
    /\ extract = Off /\ pool = Off /\ run = Off /\ store = Off /\ art = Off
    /\ valid = Off /\ workers = Off /\ threads = Off /\ fetch = Off

notSession ==
    <<prune, registry, extract, pool, run, store, art, valid, workers, threads, fetch>>

MayCall == session.pc = "on" /\ session.n < MaxCalls

SessionInsert ==
    /\ MayCall
    /\ \E entry \in SessionEntries : Insert(entry)
    /\ session' = [session EXCEPT !.n = @ + 1, !.only_upserts = FALSE]
    /\ UNCHANGED notSession

SessionReplace ==
    /\ MayCall
    /\ \E entry \in SessionEntries : Replace(entry)
    /\ session' = [session EXCEPT !.n = @ + 1, !.only_upserts = FALSE]
    /\ UNCHANGED notSession

SessionUpsert ==
    /\ MayCall
    /\ \E entry \in SessionEntries : Upsert(entry)
    /\ session' = [session EXCEPT !.n = @ + 1]
    /\ UNCHANGED notSession

\* upsert(convert_for_rahti(source, article, title)) on the constructed cleaner
SessionUpsertConverted ==
    /\ MayCall
    /\ session.n = 0
    /\ \E n \in 1..2 :
          \E u \in [1..n -> SessionUrls], d \in SessionDates :
             LET article == ArtArticle(1, u, d[2], d[1])
                 converted == convert_for_rahti(ArtSource, article, ArtTitle) IN
             /\ Upsert(converted.entry)
             /\ session' = [session EXCEPT !.n = @ + 1, !.pc = "converted",
                                           !.article = article]
    /\ UNCHANGED notSession

\* needs_updating(article) for the article just stored
SessionNeedsUpdating ==
    /\ session.pc = "converted"
    /\ session' = [session EXCEPT
                      !.pc = "asked",
                      !.needs = needs_updating(rahti, map, Stub(session.article))]
    /\ UNCHANGED <<rahti, map, call>>
    /\ UNCHANGED notSession

NextSession ==
    \/ SessionInsert \/ SessionReplace \/ SessionUpsert
    \/ SessionUpsertConverted \/ SessionNeedsUpdating

SpecSession == InitSession /\ [][NextSession]_vars

\* the article has a timestamp and a url with a signature
DatedAndSigned(article) ==
    /\ ~Undated(article)
    /\ \E i \in 1..Len(article.urls) : ~HashFails(article.urls[i])

\* C25: unchanged content is not re-admitted: after
\* upsert(convert_for_rahti(source, article, title)) for an article with a
\* timestamp and a signed url, needs_updating(article) is false on the same
\* cleaner, whatever the dataset held and whatever the labels and the order
\* of the article's urls.
C25_StoredArticleNotReadmitted ==
    (session.pc = "asked" /\ DatedAndSigned(session.article)) => ~session.needs

\* C27: map soundness: after construction and any sequence of insert,
\* replace and upsert, every key of the map maps to an index within the entry
\* list whose entry carries a url with that signature.
C27_MapSound ==
    session.pc # "off" => MapSound(map, rahti.entries)

\* two calls have been made, the second one a replace that changed the keys
C27_Witness ==
    /\ session.pc = "on" /\ session.n = 2
    /\ call.op = "replace" /\ call.idx # NotFound
    /\ DOMAIN map # DOMAIN call.old_map
    /\ DOMAIN call.old_map \ DOMAIN map # {}

\* only upserts have been made, on a dataset without a shared signature
UpsertsOnClean == session.pc # "off" /\ session.clean /\ session.only_upserts

\* C28: map completeness: starting from a dataset in which no signature
\* occurs in two entries, after any sequence of upserts every signature an
\* entry carries is a key of the map, so find locates an entry for it.
C28_MapComplete ==
    UpsertsOnClean =>
        \A k \in 1..Len(rahti.entries) :
           \A s \in SignsOf(rahti.entries[k]) :
              /\ s \in DOMAIN map
              /\ find(map, MkEntry(1, <<RahtiUrl(s)>>, PlainMeta)) # NotFound

\* C29: starting from a dataset in which no signature occurs in two entries,
\* after any sequence of upserts no signature occurs in two different entries.
C29_NoSignatureInTwoEntries ==
    UpsertsOnClean => NoSharedSign(rahti.entries)

\* an entry has just been stored by insert, replace or upsert
JustStored ==
    /\ session.pc # "off"
    /\ call.op \in {"insert", "replace", "upsert"}
    /\ call.idx # NotFound

\* C30: the dataset's updated timestamp never decreases under insert, replace
\* or upsert, and after each of them it is at least the updated timestamp of
\* the entry just stored.
C30_DatasetTimeMonotonic ==
    /\ (session.pc # "off" /\ call.op \in {"insert", "replace", "upsert"}) =>
          rahti.updated >= call.old_rahti.updated
    /\ JustStored => rahti.updated >= NewAt(call.idx).updated

\* an entry older than the dataset is inserted after the dataset's time has
\* advanced: the dataset keeps its time
C30_Witness ==
    /\ JustStored /\ session.n = 2
    /\ call.op = "insert"
    /\ call.entry.updated = 1
    /\ call.old_rahti.updated = MaxTime
    /\ rahti.updated = MaxTime
====
